---------------------------- MODULE Spec2Model ----------------------------
(***************************************************************************)
(* A model of invoice.boidu.dev: the KV-backed folder and invoice storage  *)
(* (src/src/utils/storage.ts), the folder and invoice routes that drive it *)
(* (src/unnamed/part_003, src/src/routes/metadata.ts), the invoice         *)
(* identifier derivation and the invoice totals.                           *)
(*                                                                         *)
(* Strings are sequences of UTF-16 code units (numbers), so that           *)
(* substring, toUpperCase, replace and padStart are computed as the code   *)
(* computes them.  Money is counted in millionths of a currency unit, so   *)
(* that every product and percentage of the sampled inputs is an exact     *)
(* integer; dates are day numbers.                                         *)
(***************************************************************************)
EXTENDS Integers, Sequences, FiniteSets, TLC

VARIABLES
  folders,        \* KV keys folder:{id}: folder id -> Folder
  folderIndex,    \* KV keys folder:user:{userId}:{id}: set of <<userId, id>>
  invoiceData,    \* KV keys invoice:{id}: invoice id -> [metadata, request]
  invoiceMeta,    \* KV keys invoice:meta:{id}: invoice id -> metadata
  invoiceIndex,   \* KV keys invoice:user:{u}:{id} and invoice:folder:{f}:{id}
  now,            \* the clock read by new Date(): one tick per answered request
  last,           \* the last request handled and the response it was given
  call,           \* the function or method call in progress, or the last one made
  apiKeys,        \* KV keys auth:{apiKey}: API key -> user id
  uuids,          \* the number of crypto.randomUUID() values drawn for API keys
  userRecords,    \* KV keys user:{id}: user id -> User
  userEmails      \* KV keys user:email:{email}: email -> user id

vars == <<folders, folderIndex, invoiceData, invoiceMeta, invoiceIndex, now, last, call,
          apiKeys, uuids, userRecords, userEmails>>

store == <<folders, folderIndex, invoiceData, invoiceMeta, invoiceIndex>>

accounts == <<apiKeys, uuids, userRecords, userEmails>>

-----------------------------------------------------------------------------
(* Bounds of the model *)

\* requests that are answered without an error, over a whole behaviour
MaxRequests == 4

-----------------------------------------------------------------------------
(* Strings *)

RECURSIVE Flatten(_)
Flatten(ss) == IF ss = <<>> THEN <<>> ELSE Head(ss) \o Flatten(Tail(ss))

\* String.prototype.substring(0, n)
Substring0(s, n) == SubSeq(s, 1, IF Len(s) < n THEN Len(s) ELSE n)

\* the upper-case mapping of one code unit (Latin-1 range): a-z and the
\* accented lower-case letters move down by 32, sharp s becomes "SS",
\* the micro sign and y-diaeresis leave Latin-1, everything else stays
UpperChar(c) ==
  IF c \in 97..122 THEN <<c - 32>>
  ELSE IF c = 223 THEN <<83, 83>>
  ELSE IF c \in 224..254 /\ c # 247 THEN <<c - 32>>
  ELSE IF c = 255 THEN <<376>>
  ELSE IF c = 181 THEN <<924>>
  ELSE <<c>>

\* String.prototype.toUpperCase()
ToUpperCase(s) == Flatten([i \in 1..Len(s) |-> UpperChar(s[i])])

IsAZ(c) == c \in 65..90

\* String.prototype.replace(/[^A-Z]/g, '')
StripNonAZ(s) == SelectSeq(s, IsAZ)

\* Number.prototype.toString() of an integer
RECURSIVE Digits(_)
Digits(n) == IF n < 10 THEN <<48 + n>> ELSE Digits(n \div 10) \o <<48 + (n % 10)>>

NumberToString(n) == IF n < 0 THEN <<45>> \o Digits(0 - n) ELSE Digits(n)

\* String.prototype.padStart(width, '0')
PadStart0(s, width) ==
  IF Len(s) >= width THEN s ELSE [i \in 1..(width - Len(s)) |-> 48] \o s

\* the width the sequence number is padded to
PadWidth == 4

\* the owner and company prefix lengths
UserPrefixLen == 3

CompanyPrefixLen == 4

Dash == <<45>>

\* "INV"
INV == <<73, 78, 86>>

UserPrefix(userId) == ToUpperCase(Substring0(userId, UserPrefixLen))

\* a company prefix that strips the whole name first and truncates second
CompanyPrefixFilterFirst(folderCompany) ==
  Substring0(StripNonAZ(ToUpperCase(folderCompany)), CompanyPrefixLen)

CompanyPrefix(folderCompany) ==
  StripNonAZ(ToUpperCase(Substring0(folderCompany, CompanyPrefixLen)))

\* a sequence field of fixed width: the last PadWidth digits only
SequenceTextFixedWidth(invoiceNumber) ==
  LET padded == PadStart0(NumberToString(invoiceNumber), PadWidth)
  IN  SubSeq(padded, Len(padded) - PadWidth + 1, Len(padded))

SequenceText(invoiceNumber) == PadStart0(NumberToString(invoiceNumber), PadWidth)

\* InvoiceStorage.generateInvoiceId
generateInvoiceId(userId, folderCompany, invoiceNumber) ==
  INV \o Dash \o UserPrefix(userId) \o Dash \o CompanyPrefix(folderCompany)
      \o Dash \o SequenceText(invoiceNumber)

-----------------------------------------------------------------------------
(* Money: integers counting millionths of a currency unit.  The sampled  *)
(* unit prices are whole cents, so every amount below is a multiple of   *)
(* 100 millionths and a percentage of it is an exact integer.            *)

\* amount * (rate / 100)
PercentOf(amount, rate) == (amount \div 100) * rate

\* millionths in one cent
CentUnit == 10000

\* Math.round(total * 100) / 100: to whole cents, halves towards +infinity
Round2(total) == ((total + (CentUnit \div 2)) \div CentUnit) * CentUnit

\* calculateItemTotal (templates/invoice-template.ts)
calculateItemTotal(item) ==
  LET subtotal  == item.qty * item.unit
      taxAmount == PercentOf(subtotal, item.tax)
  IN  subtotal + taxAmount

\* calculateTotal (templates/invoice-template.ts)
RECURSIVE calculateTotal(_)
calculateTotal(items) ==
  IF items = <<>> THEN 0
  ELSE calculateTotal(SubSeq(items, 1, Len(items) - 1))
         + calculateItemTotal(items[Len(items)])

\* the reduce of InvoiceStorage.saveInvoice over request.items, left to right
RECURSIVE SaveReduce(_, _)
SaveReduce(sum, items) ==
  IF items = <<>> THEN sum
  ELSE LET item      == Head(items)
           subtotal  == item.qty * item.unit
           taxAmount == PercentOf(subtotal, item.tax)
       IN  SaveReduce(sum + subtotal + taxAmount, Tail(items))

\* the items loop of InvoicePDFGenerator.generateInvoicePDF
RECURSIVE PdfItemsLoop(_, _)
PdfItemsLoop(totalAmount, items) ==
  IF items = <<>> THEN totalAmount
  ELSE LET item      == Head(items)
           subtotal  == item.qty * item.unit
           taxAmount == PercentOf(subtotal, item.tax)
           itemTotal == subtotal + taxAmount
       IN  PdfItemsLoop(totalAmount + itemTotal, Tail(items))

\* request.taxRate ?? 0
OrZero(request, field) == IF field \in DOMAIN request THEN request[field] ELSE 0

\* the totals box InvoicePDFGenerator.generateInvoicePDF draws
PdfTotals(request) ==
  LET subtotal       == PdfItemsLoop(0, request.items)
      taxRate        == OrZero(request, "taxRate")
      discountRate   == OrZero(request, "discountRate")
      taxAmount      == PercentOf(subtotal, taxRate)
      discountAmount == PercentOf(subtotal, discountRate)
      finalTotal     == subtotal + taxAmount - discountAmount
  IN  [subtotal |-> subtotal, taxAmount |-> taxAmount,
       discountAmount |-> discountAmount, finalTotal |-> finalTotal]

\* a stored total that is the sum as summed, not rounded to cents
SavedTotalUnrounded(request) == SaveReduce(0, request.items)

\* a stored total that is the total the document shows
SavedTotalRendered(request) == Round2(PdfTotals(request).finalTotal)

\* the total InvoiceStorage.saveInvoice stores in the metadata
SavedTotal(request) == Round2(SaveReduce(0, request.items))

-----------------------------------------------------------------------------
(* The KV namespace *)

\* KVNamespace.put on one family of keys
Put(kv, key, value) ==
  [k \in DOMAIN kv \cup {key} |-> IF k = key THEN value ELSE kv[k]]

\* { ...object, ...updates }
Spread(object, updates) ==
  [k \in DOMAIN object \cup DOMAIN updates |->
     IF k \in DOMAIN updates THEN updates[k] ELSE object[k]]

\* the function with no key: an empty KV family, an object without fields
Empty == <<>>

-----------------------------------------------------------------------------
(* Sampled inputs *)

\* user ids (crypto.randomUUID(), cut short): "3fa8" and "b71c"
U1 == <<51, 102, 97, 56>>

U2 == <<98, 55, 49, 99>>

UserIds == {U1, U2}

\* the stored users: user:{id}
users ==
  (U1 :> [id |-> U1, name |-> "One", email |-> "one@example.com",
          defaults |-> [seller |-> [name |-> "Seller One"], currency |-> "USD"]])
  @@
  (U2 :> [id |-> U2, name |-> "Two", email |-> "two@example.com",
          defaults |-> [seller |-> [name |-> "Seller Two"], currency |-> "EUR"]])

\* the email index of the stored users: user:email:{email}
emails == [e \in {users[u].email : u \in UserIds} |->
             CHOOSE u \in UserIds : users[u].email = e]

\* company names: "Acme Inc", "ACME Corp", "Beta-Tech"
AcmeInc == <<65, 99, 109, 101, 32, 73, 110, 99>>

ACMECorp == <<65, 67, 77, 69, 32, 67, 111, 114, 112>>

BetaTech == <<66, 101, 116, 97, 45, 84, 101, 99, 104>>

\* bodies of POST /folders; the second has an empty company
FolderBodies ==
  { [name |-> "Website", company |-> AcmeInc,
     defaults |-> [buyer |-> [name |-> "Acme Buyer"]]],
    [name |-> "Broken", company |-> <<>>,
     defaults |-> [buyer |-> [name |-> "Nobody"]]] }

\* bodies of PUT /folders/{id}; the second carries a key the schema does not know
FolderUpdateBodies ==
  { [company |-> BetaTech,
     defaults |-> [buyer |-> [name |-> "Beta Buyer"], currency |-> "GBP"]],
    [invoiceCounter |-> 0] }

\* 3 x 33.33 at 20% tax, and 1 x 200.00 untaxed
ItemA == [description |-> "Service A", qty |-> 3, unit |-> 33330000, tax |-> 20]

ItemB == [description |-> "Service B", qty |-> 1, unit |-> 200000000, tax |-> 0]

\* bodies of POST /invoices/folders/{folderId}: the first two differ in the
\* invoice-level rates only; the last has no items
InvoiceBodies ==
  { [items |-> <<ItemA>>],
    [items |-> <<ItemA>>, taxRate |-> 20, discountRate |-> 15],
    [items |-> <<ItemA, ItemB>>, status |-> "paid", taxRate |-> 20,
     seller |-> [name |-> "Given Seller"], buyer |-> [name |-> "Given Buyer"],
     currency |-> "CHF", issueDate |-> 100, dueDate |-> 130, notes |-> "Thanks"],
    [items |-> <<ItemB>>, status |-> "due", notes |-> "Original notes"],
    [items |-> <<>>] }

\* bodies of PATCH /invoices/{id}/status; the last is no status
StatusBodies == { [status |-> "due"], [status |-> "paid"], [status |-> "void"] }

\* an invoice id nothing is stored under: "NON-EXISTENT-ID" cut to "NON"
NoSuchInvoice == <<78, 79, 78>>

-----------------------------------------------------------------------------
(* Schemas (utils/schemas.ts) *)

\* z.string().min(1) on a string kept as code units, and on an opaque one
NonEmpty(s) == Len(s) >= 1

NonEmptyText(s) == s # ""

\* contactSchema, on the name
contactSchema(c) == "name" \in DOMAIN c /\ NonEmptyText(c.name)

\* invoiceItemSchema
invoiceItemSchema(item) ==
  /\ NonEmptyText(item.description)
  /\ item.qty > 0
  /\ item.unit > 0
  /\ item.tax >= 0 /\ item.tax <= 100

RateOk(body, field) ==
  field \in DOMAIN body => (body[field] >= 0 /\ body[field] <= 100)

\* status: 'due' | 'paid'
StatusValues == {"due", "paid"}

\* the status field of the invoice schemas
statusSchema(v) == v \in StatusValues

\* the optional status field of createInvoiceSchema
createInvoiceStatusSchema(body) ==
  "status" \in DOMAIN body => statusSchema(body.status)

\* createInvoiceSchema.safeParse(body).success
createInvoiceSchema(body) ==
  /\ "items" \in DOMAIN body
  /\ Len(body.items) >= 1
  /\ \A i \in 1..Len(body.items) : invoiceItemSchema(body.items[i])
  /\ ("seller" \in DOMAIN body => contactSchema(body.seller))
  /\ ("buyer" \in DOMAIN body => contactSchema(body.buyer))
  /\ RateOk(body, "taxRate")
  /\ RateOk(body, "discountRate")
  /\ createInvoiceStatusSchema(body)

InvoiceSchemaKeys ==
  {"seller", "buyer", "items", "currency", "issueDate", "dueDate",
   "taxRate", "discountRate", "notes"}

StatusKeys == {"status"}

\* createInvoiceSchema.safeParse(body).data: unknown keys are stripped and
\* the rates default to 0
createInvoiceData(body) ==
  Spread([taxRate |-> 0, discountRate |-> 0],
         [k \in DOMAIN body \cap (InvoiceSchemaKeys \cup StatusKeys) |-> body[k]])

\* createFolderSchema.safeParse(body).success
createFolderSchema(body) ==
  /\ NonEmptyText(body.name)
  /\ NonEmpty(body.company)
  /\ contactSchema(body.defaults.buyer)

FolderSchemaKeys == {"name", "company", "defaults"}

\* createFolderSchema.partial().safeParse(body).success
folderUpdateSchema(body) ==
  /\ ("name" \in DOMAIN body => NonEmptyText(body.name))
  /\ ("company" \in DOMAIN body => NonEmpty(body.company))
  /\ ("defaults" \in DOMAIN body => contactSchema(body.defaults.buyer))

\* createFolderSchema.partial().safeParse(body).data: unknown keys are stripped
folderUpdateData(body) ==
  [k \in DOMAIN body \cap FolderSchemaKeys |-> body[k]]

\* updateInvoiceStatusSchema.safeParse(body).success
updateInvoiceStatusSchema(body) ==
  "status" \in DOMAIN body /\ statusSchema(body.status)

-----------------------------------------------------------------------------
(* FolderStorage and InvoiceStorage (utils/storage.ts), on the KV families *)

\* FolderStorage.createFolder: the folder it stores under folder:{id}
createFolder(id, userId, name, company, defaults, createdAt) ==
  [id |-> id, userId |-> userId, name |-> name, company |-> company,
   createdAt |-> createdAt, defaults |-> defaults, invoiceCounter |-> 0]

\* FolderStorage.updateFolder: the folder:{id} family after it
updateFolder(fs, id, updates) ==
  IF id \notin DOMAIN fs THEN fs
  ELSE Put(fs, id, Spread(fs[id], updates))

\* a counter that hands out the number it read
NewCounterStale(fs, folderId) == fs[folderId].invoiceCounter

\* FolderStorage.incrementInvoiceCounter: the number it returns
NewCounter(fs, folderId) == fs[folderId].invoiceCounter + 1

\* FolderStorage.incrementInvoiceCounter: the folder:{id} family after it
incrementInvoiceCounter(fs, folderId) ==
  updateFolder(fs, folderId, [invoiceCounter |-> NewCounter(fs, folderId)])

\* a status that ignores the request
StatusAlwaysDue(request) == "due"

\* request.status || 'due'
StatusOrDue(request) ==
  IF "status" \in DOMAIN request THEN request.status ELSE "due"

\* InvoiceStorage.saveInvoice: the metadata it builds
saveInvoice(userId, folderId, request, invoiceNumber, folderCompany, createdAt) ==
  [id        |-> generateInvoiceId(userId, folderCompany, invoiceNumber),
   userId    |-> userId,
   folderId  |-> folderId,
   number    |-> invoiceNumber,
   buyer     |-> request.buyer.name,
   seller    |-> request.seller.name,
   total     |-> SavedTotal(request),
   currency  |-> request.currency,
   issueDate |-> request.issueDate,
   dueDate   |-> request.dueDate,
   status    |-> StatusOrDue(request),
   createdAt |-> createdAt]

\* a status update that rewrites the status of the stored request as well
updateInvoiceStatusAndRequest(data, status) ==
  Spread(data, [metadata |-> Spread(data.metadata, [status |-> status]),
                request  |-> Spread(data.request, [status |-> status])])

\* a status update that treats a paid invoice as final
updateInvoiceStatusPaidIsFinal(data, status) ==
  IF data.metadata.status = "paid" THEN data
  ELSE Spread(data, [metadata |-> Spread(data.metadata, [status |-> status])])

\* InvoiceStorage.updateInvoiceStatus: the record it writes to invoice:{id}
updateInvoiceStatus(data, status) ==
  LET updatedMetadata == Spread(data.metadata, [status |-> status])
  IN  Spread(data, [metadata |-> updatedMetadata])

-----------------------------------------------------------------------------
(* The routes.  u is the authenticated user of the request. *)

\* days added to the issue date for a missing due date
NetDays == 15

\* the handler that answered and the HTTP status it answered with
Response(op, code) == [op |-> op, code |-> code]

NoResponse == Response("none", 0)

NoCall == [op |-> "none"]

\* the two users registered, no API key issued
InitAccounts ==
  /\ apiKeys = Empty
  /\ uuids = 0
  /\ userRecords = users
  /\ userEmails = emails

Init ==
  /\ folders = Empty
  /\ folderIndex = {}
  /\ invoiceData = Empty
  /\ invoiceMeta = Empty
  /\ invoiceIndex = {}
  /\ InitAccounts
  /\ now = 1
  /\ last = NoResponse
  /\ call = NoCall

\* crypto.randomUUID(): an id no folder has
FreshFolderId == Cardinality(DOMAIN folders) + 1

\* POST /folders
CreateFolder(u, body) ==
  /\ now <= MaxRequests
  /\ IF ~createFolderSchema(body)
     THEN /\ last' = Response("createFolder", 400)
          /\ UNCHANGED <<store, now>>
     ELSE LET folder == createFolder(FreshFolderId, u, body.name, body.company,
                                     body.defaults, now)
          IN  /\ folders' = Put(folders, folder.id, folder)
              /\ folderIndex' = folderIndex \cup {<<u, folder.id>>}
              /\ now' = now + 1
              /\ last' = Spread(Response("createFolder", 201),
                                 [folderId |-> folder.id])
              /\ UNCHANGED <<invoiceData, invoiceMeta, invoiceIndex>>
  /\ UNCHANGED <<call, accounts>>

\* PUT /folders/{id}
PutFolder(u, folderId, body) ==
  /\ now <= MaxRequests
  /\ LET req == Response("putFolder", 200)
     IN  IF folderId \notin DOMAIN folders
         THEN /\ last' = Spread(req, [code |-> 404])
              /\ UNCHANGED <<folders, now>>
         ELSE IF folders[folderId].userId # u
         THEN /\ last' = Spread(req, [code |-> 403])
              /\ UNCHANGED <<folders, now>>
         ELSE IF ~folderUpdateSchema(body)
         THEN /\ last' = Spread(req, [code |-> 400])
              /\ UNCHANGED <<folders, now>>
         ELSE /\ folders' = updateFolder(folders, folderId, folderUpdateData(body))
              /\ now' = now + 1
              /\ last' = Spread(req, [folderId |-> folderId])
  /\ UNCHANGED <<folderIndex, invoiceData, invoiceMeta, invoiceIndex, call, accounts>>

\* the request POST /invoices/folders/{folderId} hands to saveInvoice and to
\* the PDF generator: missing fields inferred from the user and the folder
InferredInvoiceData(data, user, folder) ==
  LET seller    == IF "seller" \in DOMAIN data THEN data.seller
                   ELSE user.defaults.seller
      buyer     == IF "buyer" \in DOMAIN data THEN data.buyer
                   ELSE folder.defaults.buyer
      currency  == IF "currency" \in DOMAIN data THEN data.currency
                   ELSE IF "currency" \in DOMAIN folder.defaults
                   THEN folder.defaults.currency
                   ELSE user.defaults.currency
      issueDate == IF "issueDate" \in DOMAIN data THEN data.issueDate ELSE now
      dueDate   == IF "dueDate" \in DOMAIN data THEN data.dueDate
                   ELSE issueDate + NetDays
  IN  Spread(data, [seller |-> seller, buyer |-> buyer, currency |-> currency,
                    issueDate |-> issueDate, dueDate |-> dueDate])

\* POST /invoices/folders/{folderId}; pdfOk: generateInvoicePDF does not throw
CreateInvoice(u, folderId, body, pdfOk) ==
  /\ now <= MaxRequests
  /\ LET req == Response("createInvoice", 200)
     IN  IF ~createInvoiceSchema(body)
         THEN /\ last' = Spread(req, [code |-> 400])
              /\ UNCHANGED <<store, now>>
         ELSE IF folderId \notin DOMAIN folders
         THEN /\ last' = Spread(req, [code |-> 404])
              /\ UNCHANGED <<store, now>>
         ELSE IF folders[folderId].userId # u
         THEN /\ last' = Spread(req, [code |-> 403])
              /\ UNCHANGED <<store, now>>
         ELSE LET folder        == folders[folderId]
                  inferred      == InferredInvoiceData(createInvoiceData(body),
                                                       userRecords[u], folder)
                  invoiceNumber == NewCounter(folders, folderId)
                  metadata      == saveInvoice(u, folderId, inferred, invoiceNumber,
                                               folder.company, now)
              IN  /\ folders' = incrementInvoiceCounter(folders, folderId)
                  /\ invoiceData' = Put(invoiceData, metadata.id,
                                        [metadata |-> metadata, request |-> inferred])
                  /\ invoiceMeta' = Put(invoiceMeta, metadata.id, metadata)
                  /\ invoiceIndex' = invoiceIndex
                                       \cup {<<"user", u, metadata.id>>,
                                             <<"folder", folderId, metadata.id>>}
                  /\ now' = now + 1
                  /\ UNCHANGED folderIndex
                  /\ last' = IF pdfOk
                             THEN Spread(req, [id |-> metadata.id,
                                               number |-> invoiceNumber,
                                               pdf |-> PdfTotals(inferred)])
                             ELSE Spread(req, [code |-> 500])
  /\ UNCHANGED <<call, accounts>>

\* PATCH /invoices/{id}/status
PatchStatus(u, invoiceId, body) ==
  /\ now <= MaxRequests
  /\ LET req == Response("patchStatus", 200)
     IN  IF ~updateInvoiceStatusSchema(body)
         THEN /\ last' = Spread(req, [code |-> 400])
              /\ UNCHANGED <<invoiceData, invoiceMeta, now>>
         ELSE IF invoiceId \notin DOMAIN invoiceMeta
         THEN /\ last' = Spread(req, [code |-> 404])
              /\ UNCHANGED <<invoiceData, invoiceMeta, now>>
         ELSE IF invoiceMeta[invoiceId].userId # u
         THEN /\ last' = Spread(req, [code |-> 403])
              /\ UNCHANGED <<invoiceData, invoiceMeta, now>>
         ELSE IF invoiceId \notin DOMAIN invoiceData
         THEN /\ last' = Spread(req, [found |-> FALSE])
              /\ now' = now + 1
              /\ UNCHANGED <<invoiceData, invoiceMeta>>
         ELSE LET updated == updateInvoiceStatus(invoiceData[invoiceId], body.status)
              IN  /\ invoiceData' = Put(invoiceData, invoiceId, updated)
                  /\ invoiceMeta' = Put(invoiceMeta, invoiceId, updated.metadata)
                  /\ now' = now + 1
                  /\ last' = Spread(req, [found |-> TRUE, id |-> invoiceId,
                                          status |-> body.status,
                                          before |-> invoiceMeta[invoiceId].status])
  /\ UNCHANGED <<folders, folderIndex, invoiceIndex, call, accounts>>

Next ==
  \/ \E u \in UserIds, body \in FolderBodies : CreateFolder(u, body)
  \/ \E u \in UserIds, f \in DOMAIN folders \cup {FreshFolderId},
        body \in FolderUpdateBodies : PutFolder(u, f, body)
  \/ \E u \in UserIds, f \in DOMAIN folders \cup {FreshFolderId},
        body \in InvoiceBodies, pdfOk \in BOOLEAN : CreateInvoice(u, f, body, pdfOk)
  \/ \E u \in UserIds, id \in DOMAIN invoiceMeta \cup {NoSuchInvoice},
        body \in StatusBodies : PatchStatus(u, id, body)

Spec == Init /\ [][Next]_vars

-----------------------------------------------------------------------------
(* C1 *)

\* a step in which POST /invoices/folders/{folderId} saved an invoice
Created == last'.op = "createInvoice" /\ now' # now

\* C1: no invoice identifier is assigned twice.  Every creation stores its
\* invoice under an identifier that no stored invoice held before, so it
\* adds a record and overwrites none.
C1_IdentifierNeverAssignedTwice ==
  [][Created =>
       /\ DOMAIN invoiceData' # DOMAIN invoiceData
       /\ DOMAIN invoiceMeta' # DOMAIN invoiceMeta]_vars

-----------------------------------------------------------------------------
(* C2 *)

Patched == last.op = "patchStatus" /\ last.code = 200 /\ last.found

-----------------------------------------------------------------------------
(* C3 *)

\* the metadata fields a status update has to leave alone
FrameFields ==
  {"id", "userId", "folderId", "number", "total", "buyer", "seller",
   "currency", "issueDate", "dueDate", "createdAt"}

\* C3: a status update changes the status only.  In every step in which
\* PATCH /invoices/{id}/status wrote, the stored request of that invoice and
\* every metadata field other than the status, in the full record and in
\* the metadata record, are what they were before the step, and no field is
\* added or dropped.
C3_StatusUpdateFrame ==
  [][(last'.op = "patchStatus" /\ last'.code = 200 /\ last'.found) =>
       LET id == last'.id
       IN  /\ invoiceData'[id].request = invoiceData[id].request
           /\ DOMAIN invoiceData'[id] = DOMAIN invoiceData[id]
           /\ DOMAIN invoiceData'[id].metadata = DOMAIN invoiceData[id].metadata
           /\ DOMAIN invoiceMeta'[id] = DOMAIN invoiceMeta[id]
           /\ \A field \in FrameFields :
                /\ invoiceData'[id].metadata[field] = invoiceData[id].metadata[field]
                /\ invoiceMeta'[id][field] = invoiceMeta[id][field]]_vars

\* an invoice created due, then paid, has just been set back to due, and
\* still holds its notes, rates and total
C3_Witness ==
  /\ Patched
  /\ last.before = "paid"
  /\ last.status = "due"
  /\ {"notes", "status"} \subseteq DOMAIN invoiceData[last.id].request
  /\ invoiceData[last.id].request.notes = "Original notes"
  /\ invoiceData[last.id].request.status = "due"
  /\ invoiceData[last.id].request.taxRate = 0
  /\ invoiceData[last.id].metadata.total = 200000000
  /\ invoiceData[last.id].metadata.status = "due"

-----------------------------------------------------------------------------
(* C4 *)

\* C4: the status of every stored invoice is due or paid, in both records;
\* a status update of a stored invoice to either status gives that status
\* whatever the status was; and once PATCH /invoices/{id}/status has
\* written, the stored status is the requested one.
C4_StatusDueOrPaidUnconditional ==
  /\ \A id \in DOMAIN invoiceData :
       /\ invoiceData[id].metadata.status \in StatusValues
       /\ \A s \in StatusValues :
            updateInvoiceStatus(invoiceData[id], s).metadata.status = s
  /\ \A id \in DOMAIN invoiceMeta : invoiceMeta[id].status \in StatusValues
  /\ Patched =>
       /\ last.status \in StatusValues
       /\ invoiceData[last.id].metadata.status = last.status
       /\ invoiceMeta[last.id].status = last.status

\* a paid invoice has just been set to paid again
C4_Witness ==
  /\ Patched
  /\ last.before = "paid"
  /\ last.status = "paid"
  /\ invoiceMeta[last.id].status = "paid"

-----------------------------------------------------------------------------
(* C5 *)

\* the step is a status update that wrote the invoice id
PatchedNext(id) ==
  last'.op = "patchStatus" /\ last'.code = 200 /\ last'.found /\ last'.id = id

\* C5: a stored invoice is never deleted, and its records change only in a
\* status update addressed to its own identifier.
C5_OnlyOwnStatusUpdateMutates ==
  [][\A id \in DOMAIN invoiceData :
       /\ id \in DOMAIN invoiceData'
       /\ id \in DOMAIN invoiceMeta'
       /\ (invoiceData'[id] # invoiceData[id] => PatchedNext(id))
       /\ (id \in DOMAIN invoiceMeta /\ invoiceMeta'[id] # invoiceMeta[id]
             => PatchedNext(id))]_vars

-----------------------------------------------------------------------------
(* C6 *)

\* POST /invoices/folders/{folderId} has just answered with the document
CreatedOk == last.op = "createInvoice" /\ last.code = 200

-----------------------------------------------------------------------------
(* C7 *)

\* line items adjusted by the invoice-level tax and discount rates
Adjusted(subtotal, taxRate, discountRate) ==
  subtotal + PercentOf(subtotal, taxRate) - PercentOf(subtotal, discountRate)

\* C7: the stored total depends on the items only.  Two stored invoices
\* with the same items have the same total whatever their taxRate and
\* discountRate; the total of the document just drawn is the sum of its
\* line totals adjusted by the two rates.
C7_StoredTotalIgnoresRates ==
  /\ \A a, b \in DOMAIN invoiceData :
       invoiceData[a].request.items = invoiceData[b].request.items
         => /\ invoiceData[a].metadata.total = invoiceData[b].metadata.total
            /\ invoiceMeta[a].total = invoiceMeta[b].total
  /\ CreatedOk =>
       LET request == invoiceData[last.id].request
           subtotal == calculateTotal(request.items)
       IN  /\ last.pdf.subtotal = subtotal
           /\ last.pdf.finalTotal
                = Adjusted(subtotal, request.taxRate, request.discountRate)

\* two stored invoices of the same items, one without rates and one with
\* 20% tax and 15% discount: the same stored total, and a document total of
\* the second that differs from it
C7_Witness ==
  /\ CreatedOk
  /\ invoiceData[last.id].request.taxRate = 20
  /\ invoiceData[last.id].request.discountRate = 15
  /\ last.pdf.finalTotal # invoiceMeta[last.id].total
  /\ \E a \in DOMAIN invoiceData :
       /\ a # last.id
       /\ invoiceData[a].request.items = invoiceData[last.id].request.items
       /\ invoiceData[a].request.taxRate = 0
       /\ invoiceData[a].request.discountRate = 0
       /\ invoiceMeta[a].total = invoiceMeta[last.id].total

-----------------------------------------------------------------------------
(* C8 *)

\* the invoice:folder:{f}:{id} keys: one per completed creation in folder f
FolderInvoices(index, f) == { t \in index : t[1] = "folder" /\ t[2] = f }

Completed(index, f) == Cardinality(FolderInvoices(index, f))

\* C8: the sequence number is a per-folder counter.  After every step, each
\* folder's invoiceCounter is the number k of increments completed on it (0
\* for a new folder); the step that completes the k-th increment answers
\* with the number k and changes the counter of no other folder.
C8_CounterPerFolder ==
  [][\A f \in DOMAIN folders' :
       LET k == Completed(invoiceIndex', f)
       IN  /\ folders'[f].invoiceCounter = k
           /\ (f \notin DOMAIN folders => k = 0)
           /\ (f \in DOMAIN folders /\ Completed(invoiceIndex, f) # k =>
                 /\ k = Completed(invoiceIndex, f) + 1
                 /\ last'.op = "createInvoice"
                 /\ (last'.code = 200 => last'.number = k)
                 /\ \A g \in DOMAIN folders \ {f} :
                      folders'[g].invoiceCounter = folders[g].invoiceCounter)]_vars

\* the second increment of one folder has just returned 2 while another
\* folder is still at 0
C8_Witness ==
  /\ CreatedOk
  /\ last.number = 2
  /\ \E f, g \in DOMAIN folders :
       /\ folders[f].invoiceCounter = 2
       /\ folders[g].invoiceCounter = 0
       /\ Completed(invoiceIndex, f) = 2

-----------------------------------------------------------------------------
(* JavaScript numbers.  A number of the code is an IEEE 754 double; the    *)
(* operators below compute +, -, *, / and Math.round on non-negative       *)
(* doubles bit for bit (round to nearest, ties to even), so that what the  *)
(* code's arithmetic loses is lost here as well.  A natural number too     *)
(* large for one machine integer is a sequence of limbs, least significant *)
(* first, without leading zero limbs; a double is a 53-bit mantissa m and  *)
(* an exponent e, standing for m * 2^e, or the zero [m = <<>>, e = 0].     *)
(* Subnormal numbers, infinities and NaN are outside the amounts modelled. *)

\* bits in one limb; the limb base is 2^15
LimbBits == 15

\* bits of the mantissa of a double
MantissaBits == 53

\* guard bits kept by a division before it rounds
GuardBits == 64

RECURSIVE Pow2(_)
Pow2(k) == IF k = 0 THEN 1 ELSE 2 * Pow2(k - 1)

LimbBase == Pow2(LimbBits)

RECURSIVE NTrim(_)
NTrim(a) ==
  IF a = <<>> THEN <<>>
  ELSE IF a[Len(a)] = 0 THEN NTrim(SubSeq(a, 1, Len(a) - 1))
  ELSE a

\* a machine integer as limbs
RECURSIVE NFromInt(_)
NFromInt(n) ==
  IF n = 0 THEN <<>> ELSE <<n % LimbBase>> \o NFromInt(n \div LimbBase)

RECURSIVE NAddC(_, _, _)
NAddC(a, b, c) ==
  IF a = <<>> /\ b = <<>> THEN (IF c = 0 THEN <<>> ELSE <<c>>)
  ELSE LET x == IF a = <<>> THEN 0 ELSE Head(a)
           y == IF b = <<>> THEN 0 ELSE Head(b)
           t == x + y + c
       IN  <<t % LimbBase>>
             \o NAddC(IF a = <<>> THEN <<>> ELSE Tail(a),
                      IF b = <<>> THEN <<>> ELSE Tail(b), t \div LimbBase)

NAdd(a, b) == NAddC(a, b, 0)

\* a - b for a >= b
RECURSIVE NSubB(_, _, _)
NSubB(a, b, c) ==
  IF a = <<>> THEN <<>>
  ELSE LET y == IF b = <<>> THEN 0 ELSE Head(b)
           t == Head(a) - y - c
       IN  <<t % LimbBase>>
             \o NSubB(Tail(a), IF b = <<>> THEN <<>> ELSE Tail(b),
                      IF t < 0 THEN 1 ELSE 0)

NSub(a, b) == NTrim(NSubB(a, b, 0))

\* a * k for one limb k
RECURSIVE NMulSmallC(_, _, _)
NMulSmallC(a, k, c) ==
  IF a = <<>> THEN (IF c = 0 THEN <<>> ELSE <<c>>)
  ELSE LET t == Head(a) * k + c
       IN  <<t % LimbBase>> \o NMulSmallC(Tail(a), k, t \div LimbBase)

NMulSmall(a, k) == NTrim(NMulSmallC(a, k, 0))

RECURSIVE NMul(_, _)
NMul(a, b) ==
  IF a = <<>> \/ b = <<>> THEN <<>>
  ELSE LET rest == NMul(a, Tail(b))
       IN  NAdd(NMulSmall(a, Head(b)),
                IF rest = <<>> THEN <<>> ELSE <<0>> \o rest)

\* <<quotient, remainder>> of a by one limb d
RECURSIVE NDivModSmall(_, _)
NDivModSmall(a, d) ==
  IF a = <<>> THEN <<<<>>, 0>>
  ELSE LET hi  == NDivModSmall(Tail(a), d)
           cur == hi[2] * LimbBase + Head(a)
       IN  <<NTrim(<<cur \div d>> \o hi[1]), cur % d>>

NZeros(k) == [i \in 1..k |-> 0]

\* a * 2^k
NShl(a, k) ==
  IF a = <<>> THEN <<>>
  ELSE NZeros(k \div LimbBits) \o NMulSmall(a, Pow2(k % LimbBits))

\* a \div 2^k
NShr(a, k) ==
  IF k \div LimbBits >= Len(a) THEN <<>>
  ELSE NDivModSmall(SubSeq(a, (k \div LimbBits) + 1, Len(a)),
                    Pow2(k % LimbBits))[1]

RECURSIVE BitLen(_)
BitLen(n) == IF n = 0 THEN 0 ELSE 1 + BitLen(n \div 2)

NBitLen(a) ==
  IF a = <<>> THEN 0 ELSE LimbBits * (Len(a) - 1) + BitLen(a[Len(a)])

\* -1, 0, 1 as a is below, equal to, above b
RECURSIVE NCmp(_, _)
NCmp(a, b) ==
  IF Len(a) # Len(b) THEN (IF Len(a) < Len(b) THEN 0 - 1 ELSE 1)
  ELSE IF a = <<>> THEN 0
  ELSE IF a[Len(a)] # b[Len(b)] THEN (IF a[Len(a)] < b[Len(b)] THEN 0 - 1 ELSE 1)
  ELSE NCmp(SubSeq(a, 1, Len(a) - 1), SubSeq(b, 1, Len(b) - 1))

NOdd(a) == a # <<>> /\ a[1] % 2 = 1

\* the double 0
Zero == [m |-> <<>>, e |-> 0]

\* the two doubles that are not finite (the model has no negative numbers)
Infinity == [m |-> <<>>, e |-> 1]

NaN == [m |-> <<>>, e |-> 2]

IsFinite(x) == x \notin {Infinity, NaN}

\* every finite double is below 2^MaxExponent
MaxExponent == 1024

\* a rounded result m * 2^e, or Infinity when it is out of range
Overflow(x) ==
  IF x.m # <<>> /\ x.e + MantissaBits > MaxExponent THEN Infinity ELSE x

\* the double nearest to m * 2^e, ties to the even mantissa; the subnormal
\* range is not modelled
RoundNearestEven(m, e) ==
  LET len == NBitLen(m)
  IN  IF m = <<>> THEN Zero
      ELSE IF len <= MantissaBits
      THEN Overflow([m |-> NShl(m, MantissaBits - len),
                     e |-> e - (MantissaBits - len)])
      ELSE LET k    == len - MantissaBits
               q    == NShr(m, k)
               rest == NSub(m, NShl(q, k))
               half == NCmp(rest, NShl(<<1>>, k - 1))
               up   == half = 1 \/ (half = 0 /\ NOdd(q))
               r    == IF up THEN NAdd(q, <<1>>) ELSE q
           IN  IF NBitLen(r) > MantissaBits
               THEN Overflow([m |-> NShr(r, 1), e |-> e + k + 1])
               ELSE Overflow([m |-> r, e |-> e + k])

\* the double of a machine integer
Num(n) == RoundNearestEven(NFromInt(n), 0)

\* the mantissas of x and y over their smaller exponent
Aligned(x, y) ==
  LET e == IF x.e < y.e THEN x.e ELSE y.e
  IN  [x |-> NShl(x.m, x.e - e), y |-> NShl(y.m, y.e - e), e |-> e]

\* x + y
FAdd(x, y) ==
  IF x = NaN \/ y = NaN THEN NaN
  ELSE IF x = Infinity \/ y = Infinity THEN Infinity
  ELSE IF x = Zero THEN y
  ELSE IF y = Zero THEN x
  ELSE LET a == Aligned(x, y) IN RoundNearestEven(NAdd(a.x, a.y), a.e)

\* x <= y
FLeq(x, y) ==
  IF x = Zero THEN TRUE
  ELSE IF y = Zero THEN FALSE
  ELSE IF x.e # y.e THEN x.e < y.e
  ELSE NCmp(x.m, y.m) <= 0

\* x - y, for x >= y
FSub(x, y) ==
  IF x = NaN \/ y = NaN \/ (x = Infinity /\ y = Infinity) THEN NaN
  ELSE IF x = Infinity \/ y = Zero THEN x
  ELSE LET a == Aligned(x, y) IN RoundNearestEven(NSub(a.x, a.y), a.e)

\* x * y
FMul(x, y) ==
  IF x = NaN \/ y = NaN THEN NaN
  ELSE IF x = Infinity \/ y = Infinity
  THEN IF x = Zero \/ y = Zero THEN NaN ELSE Infinity
  ELSE RoundNearestEven(NMul(x.m, y.m), x.e + y.e)

\* x / d for a machine integer d from 1 to 2^15: the quotient to GuardBits
\* further bits, and one more bit that is set when the division left a
\* remainder
FDivInt(x, d) ==
  LET qr     == NDivModSmall(NShl(x.m, GuardBits), d)
      sticky == IF qr[2] = 0 THEN <<>> ELSE <<1>>
  IN  IF ~IsFinite(x) THEN x
      ELSE RoundNearestEven(NAdd(NShl(qr[1], 1), sticky), x.e - GuardBits - 1)

\* the number literal n / scale, scale a power of ten: 33.33 is Decimal(3333, 100)
Decimal(n, scale) == FDivInt(Num(n), scale)

\* Math.round(x) for x >= 0: the nearest integer, halves upwards
MathRound(x) ==
  IF x = Zero \/ ~IsFinite(x) \/ x.e >= 0 THEN x
  ELSE LET s == 0 - x.e
       IN  IF s > MantissaBits + 1 THEN Zero
           ELSE RoundNearestEven(NShr(NAdd(x.m, NShl(<<1>>, s - 1)), s), 0)

-----------------------------------------------------------------------------
(* The totals as the code computes them, on doubles.  An item is a record  *)
(* of three doubles; a request holds a sequence of items and, optionally,  *)
(* the two invoice-level rates.                                            *)

Hundred == Num(100)

\* an item total whose tax is taken on the unit price, not on qty * unit
calculateItemTotalTaxOnUnit(item) ==
  FAdd(FMul(item.qty, item.unit), FMul(item.unit, FDivInt(item.tax, 100)))

\* calculateItemTotal (templates/invoice-template.ts), on doubles
calculateItemTotalNumber(item) ==
  LET subtotal  == FMul(item.qty, item.unit)
      taxAmount == FMul(subtotal, FDivInt(item.tax, 100))
  IN  FAdd(subtotal, taxAmount)

\* items.reduce((sum, item) => sum + calculateItemTotal(item), 0)
RECURSIVE calculateTotalFrom(_, _)
calculateTotalFrom(sum, items) ==
  IF items = <<>> THEN sum
  ELSE calculateTotalFrom(FAdd(sum, calculateItemTotalNumber(Head(items))),
                          Tail(items))

\* calculateTotal (templates/invoice-template.ts), on doubles
calculateTotalNumber(items) == calculateTotalFrom(Zero, items)

\* the reduce of InvoiceStorage.saveInvoice, on doubles:
\* sum + subtotal + taxAmount is (sum + subtotal) + taxAmount
RECURSIVE SaveReduceNumber(_, _)
SaveReduceNumber(sum, items) ==
  IF items = <<>> THEN sum
  ELSE LET item      == Head(items)
           subtotal  == FMul(item.qty, item.unit)
           taxAmount == FMul(subtotal, FDivInt(item.tax, 100))
       IN  SaveReduceNumber(FAdd(FAdd(sum, subtotal), taxAmount), Tail(items))

\* Math.round(total * 100) / 100, on doubles
Round2Number(total) == FDivInt(MathRound(FMul(total, Hundred)), 100)

\* the total InvoiceStorage.saveInvoice stores, on doubles
SavedTotalNumber(items) == Round2Number(SaveReduceNumber(Zero, items))

\* the items loop of InvoicePDFGenerator.generateInvoicePDF, on doubles
RECURSIVE PdfItemsLoopNumber(_, _)
PdfItemsLoopNumber(totalAmount, items) ==
  IF items = <<>> THEN totalAmount
  ELSE LET item      == Head(items)
           subtotal  == FMul(item.qty, item.unit)
           taxAmount == FMul(subtotal, FDivInt(item.tax, 100))
           itemTotal == FAdd(subtotal, taxAmount)
       IN  PdfItemsLoopNumber(FAdd(totalAmount, itemTotal), Tail(items))

\* request.taxRate ?? 0, on doubles
OrZeroNumber(request, field) ==
  IF field \in DOMAIN request THEN request[field] ELSE Zero

\* totals whose discount is taken on the taxed amount
PdfTotalsDiscountAfterTax(request) ==
  LET subtotal       == PdfItemsLoopNumber(Zero, request.items)
      taxAmount      == FMul(subtotal, FDivInt(OrZeroNumber(request, "taxRate"), 100))
      discountAmount == FMul(FAdd(subtotal, taxAmount),
                             FDivInt(OrZeroNumber(request, "discountRate"), 100))
  IN  [subtotal |-> subtotal, taxAmount |-> taxAmount,
       discountAmount |-> discountAmount,
       finalTotal |-> FSub(FAdd(subtotal, taxAmount), discountAmount)]

\* the totals box of InvoicePDFGenerator.generateInvoicePDF, on doubles
PdfTotalsNumber(request) ==
  LET subtotal       == PdfItemsLoopNumber(Zero, request.items)
      taxRate        == OrZeroNumber(request, "taxRate")
      discountRate   == OrZeroNumber(request, "discountRate")
      taxAmount      == FMul(subtotal, FDivInt(taxRate, 100))
      discountAmount == FMul(subtotal, FDivInt(discountRate, 100))
      finalTotal     == FSub(FAdd(subtotal, taxAmount), discountAmount)
  IN  [subtotal |-> subtotal, taxAmount |-> taxAmount,
       discountAmount |-> discountAmount, finalTotal |-> finalTotal]

-----------------------------------------------------------------------------
(* The totals on their own: Init draws the arguments of one call of        *)
(* calculateItemTotal, calculateTotal, the totals of generateInvoicePDF or *)
(* the total of saveInvoice; the action applies it.  A number of a request *)
(* body is written <<n, scale>> for the JSON literal n / scale.            *)

\* the longest list of items sampled
MaxItems == 3

\* JSON.parse of a number literal
NumberOf(literal) == Decimal(literal[1], literal[2])

ItemOf(literal) ==
  [qty  |-> NumberOf(literal.qty),
   unit |-> NumberOf(literal.unit),
   tax  |-> NumberOf(literal.tax)]

ItemsOf(literals) == [i \in 1..Len(literals) |-> ItemOf(literals[i])]

\* quantities 0, 1, 2, 3, 5 and 2.5
QtyLiterals == {<<0, 1>>, <<1, 1>>, <<2, 1>>, <<3, 1>>, <<5, 1>>, <<25, 10>>}

\* unit prices 0, 0.1, 33.33, 80, 100, 1.005 and 0.015
UnitLiterals ==
  {<<0, 1>>, <<1, 10>>, <<3333, 100>>, <<80, 1>>, <<100, 1>>, <<1005, 1000>>,
   <<15, 1000>>}

\* tax percentages 0, 10, 15, 20, 25, 100 and 8.25
TaxLiterals ==
  {<<0, 1>>, <<10, 1>>, <<15, 1>>, <<20, 1>>, <<25, 1>>, <<100, 1>>, <<825, 100>>}

ItemLiteral(qty, unit, tax) == [qty |-> qty, unit |-> unit, tax |-> tax]

\* the items of the test 'should calculate total for multiple items', and
\* three untaxed items of 0.1, 0.2 and 0.3
TotalItemLiterals ==
  {ItemLiteral(<<1, 1>>, <<100, 1>>, <<0, 1>>),
   ItemLiteral(<<2, 1>>, <<50, 1>>, <<10, 1>>),
   ItemLiteral(<<1, 1>>, <<75, 1>>, <<5, 1>>),
   ItemLiteral(<<1, 1>>, <<1, 10>>, <<0, 1>>),
   ItemLiteral(<<1, 1>>, <<2, 10>>, <<0, 1>>),
   ItemLiteral(<<1, 1>>, <<3, 10>>, <<0, 1>>)}

\* items whose totals lie on and next to half a cent: 0.125, 1.005, 0.015,
\* 0.004, and the 3 x 33.33 at 20% of the tests
SavedItemLiterals ==
  {ItemLiteral(<<1, 1>>, <<125, 1000>>, <<0, 1>>),
   ItemLiteral(<<1, 1>>, <<1005, 1000>>, <<0, 1>>),
   ItemLiteral(<<1, 1>>, <<15, 1000>>, <<0, 1>>),
   ItemLiteral(<<1, 1>>, <<4, 1000>>, <<0, 1>>),
   ItemLiteral(<<3, 1>>, <<3333, 100>>, <<20, 1>>),
   ItemLiteral(<<2, 1>>, <<50, 1>>, <<10, 1>>)}

\* the sequences of at most n elements of S
RECURSIVE SeqsUpTo(_, _)
SeqsUpTo(S, n) ==
  IF n = 0 THEN {<<>>}
  ELSE LET shorter == SeqsUpTo(S, n - 1)
       IN  shorter \cup { Append(q, x) : q \in shorter, x \in S }

\* the lists of items the PDF totals are sampled on
PdfItemLists ==
  {<<ItemLiteral(<<1, 1>>, <<1000, 1>>, <<0, 1>>)>>,
   <<ItemLiteral(<<3, 1>>, <<3333, 100>>, <<20, 1>>)>>,
   <<ItemLiteral(<<1, 1>>, <<100, 1>>, <<0, 1>>),
     ItemLiteral(<<2, 1>>, <<50, 1>>, <<10, 1>>),
     ItemLiteral(<<1, 1>>, <<75, 1>>, <<5, 1>>)>>}

\* invoice-level rates 0, 7, 15, 20, 100 and 8.25
RateLiterals == {<<0, 1>>, <<7, 1>>, <<15, 1>>, <<20, 1>>, <<100, 1>>, <<825, 100>>}

\* the rates of a request: each of taxRate and discountRate given or absent
RateBodies ==
  {Empty}
    \cup { [taxRate |-> t] : t \in RateLiterals }
    \cup { [discountRate |-> d] : d \in RateLiterals }
    \cup { [taxRate |-> t, discountRate |-> d] : t \in RateLiterals, d \in RateLiterals }

RatesOf(rates) == [k \in DOMAIN rates |-> NumberOf(rates[k])]

InitMoney ==
  /\ folders = Empty
  /\ folderIndex = {}
  /\ invoiceData = Empty
  /\ invoiceMeta = Empty
  /\ invoiceIndex = {}
  /\ InitAccounts
  /\ now = 1
  /\ last = NoResponse
  /\ \/ call \in { [op |-> "calculateItemTotal", done |-> FALSE,
                    item |-> ItemLiteral(q, u, t)] :
                   q \in QtyLiterals, u \in UnitLiterals, t \in TaxLiterals }
     \/ call \in { [op |-> "calculateTotal", done |-> FALSE, items |-> items] :
                   items \in SeqsUpTo(TotalItemLiterals, MaxItems) }
     \/ call \in { [op |-> "generateInvoicePDF", done |-> FALSE,
                    items |-> items, rates |-> rates] :
                   items \in PdfItemLists, rates \in RateBodies }
     \/ call \in { [op |-> "saveInvoice", done |-> FALSE, items |-> items] :
                   items \in SeqsUpTo(SavedItemLiterals, MaxItems) \ {<<>>} }

Return(result) == call' = Spread(call, [done |-> TRUE, result |-> result])

\* one call of calculateItemTotal
CalculateItemTotalCall ==
  /\ call.op = "calculateItemTotal" /\ ~call.done
  /\ Return(calculateItemTotalNumber(ItemOf(call.item)))
  /\ UNCHANGED <<store, accounts, now, last>>

\* one call of calculateTotal
CalculateTotalCall ==
  /\ call.op = "calculateTotal" /\ ~call.done
  /\ Return(calculateTotalNumber(ItemsOf(call.items)))
  /\ UNCHANGED <<store, accounts, now, last>>

\* the totals of one call of generateInvoicePDF
PdfTotalsCall ==
  /\ call.op = "generateInvoicePDF" /\ ~call.done
  /\ Return(PdfTotalsNumber(Spread(RatesOf(call.rates),
                                   [items |-> ItemsOf(call.items)])))
  /\ UNCHANGED <<store, accounts, now, last>>

\* the total of one call of saveInvoice
SavedTotalCall ==
  /\ call.op = "saveInvoice" /\ ~call.done
  /\ Return(SavedTotalNumber(ItemsOf(call.items)))
  /\ UNCHANGED <<store, accounts, now, last>>

NextMoney ==
  \/ CalculateItemTotalCall
  \/ CalculateTotalCall
  \/ PdfTotalsCall
  \/ SavedTotalCall

SpecMoney == InitMoney /\ [][NextMoney]_vars

\* the call of op has returned
Did(op) == call.op = op /\ call.done

-----------------------------------------------------------------------------
(* Exact arithmetic on the values of doubles, to measure what the code's   *)
(* arithmetic lost: [m, e] stands for m * 2^e, m of any length.            *)

XMul(a, b) == [m |-> NMul(a.m, b.m), e |-> a.e + b.e]

XTimes(a, k) == [m |-> NMulSmall(a.m, k), e |-> a.e]

XAdd(a, b) == LET c == Aligned(a, b) IN [m |-> NAdd(c.x, c.y), e |-> c.e]

XLeq(a, b) == LET c == Aligned(a, b) IN NCmp(c.x, c.y) <= 0

\* | a - b |
XDist(a, b) ==
  LET c == Aligned(a, b)
  IN  [m |-> IF NCmp(c.x, c.y) >= 0 THEN NSub(c.x, c.y) ELSE NSub(c.y, c.x),
       e |-> c.e]

\* the relative error allowed to a few roundings of doubles: 2^-50
RoundingBits == MantissaBits - 3

\* | a - b | <= 2^-50 * scale
Close(a, b, scale) ==
  LET d == XDist(a, b) IN XLeq([m |-> d.m, e |-> d.e + RoundingBits], scale)

-----------------------------------------------------------------------------
(* C11 *)

\* the expectations of the tests of calculateItemTotal
ItemTotalVectors ==
  { <<ItemLiteral(<<5, 1>>, <<100, 1>>, <<0, 1>>), <<500, 1>>>>,
    <<ItemLiteral(<<2, 1>>, <<100, 1>>, <<10, 1>>), <<220, 1>>>>,
    <<ItemLiteral(<<1, 1>>, <<100, 1>>, <<25, 1>>), <<125, 1>>>>,
    <<ItemLiteral(<<25, 10>>, <<80, 1>>, <<15, 1>>), <<230, 1>>>>,
    <<ItemLiteral(<<3, 1>>, <<3333, 100>>, <<20, 1>>), <<119988, 1000>>>> }

-----------------------------------------------------------------------------
(* C12 *)

\* the items in every order
Reorderings(items) ==
  { [i \in 1..Len(items) |-> items[p[i]]] : p \in Permutations(1..Len(items)) }

\* C12: calculateTotal(items) is the sum of the item totals, taken in the
\* order of the list; it is 0 for the empty list; and it is the same for
\* the same items in any other order.
C12_TotalOrderIndependent ==
  Did("calculateTotal") =>
    /\ (call.items = <<>> => call.result = Zero)
    /\ (Len(call.items) = 1 =>
          call.result = calculateItemTotalNumber(ItemOf(call.items[1])))
    /\ \A other \in Reorderings(call.items) :
         calculateTotalNumber(ItemsOf(other)) = call.result

-----------------------------------------------------------------------------
(* C13 *)

\* C13: in the totals of the document, subtotal is the sum of the line
\* totals; taxAmount and discountAmount are taxRate percent and discountRate
\* percent of that same subtotal (as doubles, and as real numbers up to the
\* rounding of doubles); finalTotal is subtotal + taxAmount - discountAmount;
\* with both rates 0 or absent finalTotal is subtotal exactly; and for a
\* subtotal of 1000 at 20% tax and 15% discount they are 200, 150 and 1050.
C13_InvoiceLevelTotals ==
  Did("generateInvoicePDF") =>
    LET r        == call.result
        rates    == RatesOf(call.rates)
        tax      == IF "taxRate" \in DOMAIN rates THEN rates.taxRate ELSE Zero
        discount == IF "discountRate" \in DOMAIN rates THEN rates.discountRate
                    ELSE Zero
    IN  /\ r.subtotal = calculateTotalNumber(ItemsOf(call.items))
        /\ r.taxAmount = FMul(r.subtotal, FDivInt(tax, 100))
        /\ r.discountAmount = FMul(r.subtotal, FDivInt(discount, 100))
        /\ r.finalTotal = FSub(FAdd(r.subtotal, r.taxAmount), r.discountAmount)
        /\ Close(XTimes(r.taxAmount, 100), XMul(r.subtotal, tax),
                 XMul(r.subtotal, tax))
        /\ Close(XTimes(r.discountAmount, 100), XMul(r.subtotal, discount),
                 XMul(r.subtotal, discount))
        /\ Close(XAdd(XTimes(r.finalTotal, 100), XMul(r.subtotal, discount)),
                 XMul(r.subtotal, XAdd(Hundred, tax)),
                 XMul(r.subtotal, XAdd(XAdd(Hundred, tax), discount)))
        /\ (tax = Zero /\ discount = Zero => r.finalTotal = r.subtotal)
        /\ (r.subtotal = Num(1000) /\ tax = Num(20) /\ discount = Num(15) =>
              /\ r.taxAmount = Num(200)
              /\ r.discountAmount = Num(150)
              /\ r.finalTotal = Num(1050))

\* the totals of one item of 1000 at 20% tax and 15% discount have been
\* computed: 200, 150 and 1050
C13_Witness ==
  /\ Did("generateInvoicePDF")
  /\ call.rates = [taxRate |-> <<20, 1>>, discountRate |-> <<15, 1>>]
  /\ call.result.subtotal = Num(1000)
  /\ call.result.discountAmount = Num(150)
  /\ call.result.finalTotal = Num(1050)

-----------------------------------------------------------------------------
(* C14 *)

\* the total of an item in decimal arithmetic, in hundred-thousandths, for a
\* whole quantity, a whole tax percentage and a unit price of at most three
\* decimals: qty * unit * (100 + tax) / 100
ExactItemTotal(literal) ==
  literal.qty[1] * literal.unit[1] * (1000 \div literal.unit[2])
    * (100 + literal.tax[1])

RECURSIVE ExactTotal(_)
ExactTotal(literals) ==
  IF literals = <<>> THEN 0
  ELSE ExactItemTotal(Head(literals)) + ExactTotal(Tail(literals))

\* hundred-thousandths to cents, halves away from zero
ExactCents(total) == (total + 500) \div 1000

\* C14: the total saveInvoice stores is the sum of the line totals, not
\* rounded line by line, rounded once to cents with halves away from zero.
C14_RoundedOnceHalfAwayFromZero ==
  Did("saveInvoice") =>
    call.result = NumberOf(<<ExactCents(ExactTotal(call.items)), 100>>)

-----------------------------------------------------------------------------
(* The storage and key services called directly, as the storage tests call *)
(* them.  The amounts of a request are doubles.                            *)

\* API keys created, over a whole behaviour
MaxKeys == 3

\* invoices saved by direct calls, over a whole behaviour
MaxSaves == 3

\* null: no stored object and no stored identifier is empty
Null == <<>>

\* JSON.parse(JSON.stringify(x)) of a number: a number that is not finite
\* is written as null
JSONNumber(x) == IF IsFinite(x) THEN x ELSE Null

JSONItem(item) ==
  Spread(item, [qty  |-> JSONNumber(item.qty),
                unit |-> JSONNumber(item.unit),
                tax  |-> JSONNumber(item.tax)])

\* JSON.parse(JSON.stringify(request)); a property that holds undefined and
\* a property that is missing are the same object in the model
JSONRequest(request) ==
  Spread(request,
         [items |-> [i \in 1..Len(request.items) |-> JSONItem(request.items[i])]])

\* JSON.parse(JSON.stringify(metadata))
JSONMetadata(metadata) == Spread(metadata, [total |-> JSONNumber(metadata.total)])

\* JSON.parse(JSON.stringify(storageData))
JSONStorageData(data) ==
  [metadata |-> JSONMetadata(data.metadata), request |-> JSONRequest(data.request)]

\* InvoiceStorage.saveInvoice: the metadata it builds, the total a double
saveInvoiceNumber(userId, folderId, request, invoiceNumber, folderCompany, createdAt) ==
  [id        |-> generateInvoiceId(userId, folderCompany, invoiceNumber),
   userId    |-> userId,
   folderId  |-> folderId,
   number    |-> invoiceNumber,
   buyer     |-> request.buyer.name,
   seller    |-> request.seller.name,
   total     |-> SavedTotalNumber(request.items),
   currency  |-> request.currency,
   issueDate |-> request.issueDate,
   dueDate   |-> request.dueDate,
   status    |-> StatusOrDue(request),
   createdAt |-> createdAt]

\* InvoiceStorage.getInvoiceMetadata
getInvoiceMetadata(id) ==
  IF id \in DOMAIN invoiceMeta THEN invoiceMeta[id] ELSE Null

\* InvoiceStorage.getInvoiceData
getInvoiceData(id) ==
  IF id \in DOMAIN invoiceData THEN invoiceData[id] ELSE Null

\* the order of KV keys: s before t
RECURSIVE LexLess(_, _)
LexLess(s, t) ==
  IF t = <<>> THEN FALSE
  ELSE IF s = <<>> THEN TRUE
  ELSE IF Head(s) # Head(t) THEN Head(s) < Head(t)
  ELSE LexLess(Tail(s), Tail(t))

\* the identifiers of a set in the order of their keys
RECURSIVE InKeyOrder(_)
InKeyOrder(ids) ==
  IF ids = {} THEN <<>>
  ELSE LET first == CHOOSE x \in ids : \A y \in ids : x = y \/ LexLess(x, y)
       IN  <<first>> \o InKeyOrder(ids \ {first})

\* kv.list({ limit, prefix }) on the keys invoice:{kind}:{owner}:, each key
\* cut down to key.name.split(':').pop()
ListKeys(kind, owner, limit) ==
  LET ids  == { t[3] : t \in { k \in invoiceIndex : k[1] = kind /\ k[2] = owner } }
      keys == InKeyOrder(ids)
  IN  [keys          |-> SubSeq(keys, 1, IF Len(keys) < limit THEN Len(keys) ELSE limit),
       list_complete |-> Len(keys) <= limit]

\* the loop over result.keys: the metadata that getInvoiceMetadata finds
RECURSIVE LoadAll(_)
LoadAll(keys) ==
  IF keys = <<>> THEN <<>>
  ELSE LET metadata == getInvoiceMetadata(Head(keys))
       IN  (IF metadata # Null THEN <<metadata>> ELSE <<>>) \o LoadAll(Tail(keys))

\* one element put into a list sorted by createdAt, newest first, behind
\* the elements of its own createdAt
RECURSIVE InsertByCreatedAt(_, _)
InsertByCreatedAt(sorted, x) ==
  IF sorted = <<>> THEN <<x>>
  ELSE IF Head(sorted).createdAt >= x.createdAt
  THEN <<Head(sorted)>> \o InsertByCreatedAt(Tail(sorted), x)
  ELSE <<x>> \o sorted

\* invoices.sort((a, b) => new Date(b.createdAt) - new Date(a.createdAt))
RECURSIVE SortByCreatedAt(_)
SortByCreatedAt(invoices) ==
  IF invoices = <<>> THEN <<>>
  ELSE InsertByCreatedAt(SortByCreatedAt(SubSeq(invoices, 1, Len(invoices) - 1)),
                         invoices[Len(invoices)])

ListInvoices(kind, owner, limit) ==
  LET result == ListKeys(kind, owner, limit)
  IN  [invoices |-> SortByCreatedAt(LoadAll(result.keys)),
       complete |-> result.list_complete]

\* InvoiceStorage.listInvoicesByUser
listInvoicesByUser(userId, limit) == ListInvoices("user", userId, limit)

\* InvoiceStorage.listInvoicesByFolder
listInvoicesByFolder(folderId, limit) == ListInvoices("folder", folderId, limit)

\* `ak_${userId}_${uuid}`, the uuid the n-th one drawn
ApiKey(userId, n) == [userId |-> userId, uuid |-> n]

\* AuthService.validateApiKey
validateApiKey(apiKey) ==
  IF apiKey \in DOMAIN apiKeys THEN apiKeys[apiKey] ELSE Null

\* a delete that takes every key of the same value with it
DeleteEveryKeyOfValue(kv, key) ==
  [k \in { j \in DOMAIN kv : key \notin DOMAIN kv \/ kv[j] # kv[key] } |-> kv[k]]

\* KVNamespace.delete on one family of keys
Delete(kv, key) == [k \in DOMAIN kv \ {key} |-> kv[k]]

\* AuthService.getUserById
getUserById(userId) ==
  IF userId \in DOMAIN userRecords THEN userRecords[userId] ELSE Null

\* an Authorization header value: the text up to and with the first space,
\* and the text behind it
Authorization(scheme, credentials) == [scheme |-> scheme, credentials |-> credentials]

\* the header of a request that carries the API key
Bearer(apiKey) == [authorization |-> Authorization("Bearer ", apiKey)]

\* AuthService.extractApiKeyFromHeader: /^Bearer (.+)$/
extractApiKeyFromHeader(authorization) ==
  IF authorization.scheme = "Bearer " /\ authorization.credentials # <<>>
  THEN authorization.credentials
  ELSE Null

\* authHeaderSchema: the header is there and is not empty
authHeaderSchema(headers) ==
  /\ "authorization" \in DOMAIN headers
  /\ headers.authorization # Authorization("", <<>>)

\* authenticateRequest: the AuthContext of the request, or null
authenticateRequest(headers) ==
  IF ~authHeaderSchema(headers) THEN Null
  ELSE LET apiKey == extractApiKeyFromHeader(headers.authorization)
       IN  IF apiKey = Null THEN Null
           ELSE LET userId == validateApiKey(apiKey)
                IN  IF userId = Null THEN Null
                    ELSE LET user == getUserById(userId)
                         IN  IF user = Null THEN Null
                             ELSE [userId |-> userId, user |-> user]

\* a third user id, "3fa9": its first three characters are those of U1
U3 == <<51, 102, 97, 57>>

\* the double 2^k
TwoTo(k) == [m |-> NShl(<<1>>, MantissaBits - 1), e |-> k - (MantissaBits - 1)]

\* 3 x 33.33 at 20% and 2 x 50 at 10%
PlainItems ==
  ItemsOf(<<ItemLiteral(<<3, 1>>, <<3333, 100>>, <<20, 1>>),
            ItemLiteral(<<2, 1>>, <<50, 1>>, <<10, 1>>)>>)

\* 8.98846567431158e307 x 2 at 10%: numbers JSON can carry and
\* createInvoiceSchema accepts
HugeItems == <<[qty |-> TwoTo(1023), unit |-> Num(2), tax |-> Num(10)]>>

StorageRequest(items) ==
  [seller    |-> [name |-> "Seller One"],
   buyer     |-> [name |-> "Jane Doe"],
   items     |-> items,
   currency  |-> "USD",
   issueDate |-> 1,
   dueDate   |-> 16]

\* the invoices saved: the owner, the folder, the request, the number and
\* the folder's company
StorageSaves ==
  {<<U1, 1, StorageRequest(PlainItems), 1, AcmeInc>>,
   <<U1, 1, StorageRequest(PlainItems), 2, AcmeInc>>,
   <<U3, 2, StorageRequest(PlainItems), 1, ACMECorp>>,
   <<U2, 3, StorageRequest(HugeItems), 1, BetaTech>>}

\* "INV-3FA-ACME-0001", and an identifier no invoice has
StorageIds == {generateInvoiceId(U1, AcmeInc, 1), NoSuchInvoice}

StorageKeys == { ApiKey(u, n) : u \in {U1, U2}, n \in 1..MaxKeys }

InitStorage ==
  /\ folders = Empty
  /\ folderIndex = {}
  /\ invoiceData = Empty
  /\ invoiceMeta = Empty
  /\ invoiceIndex = {}
  /\ InitAccounts
  /\ now = 1
  /\ last = NoResponse
  /\ call = NoCall

\* one call of InvoiceStorage.saveInvoice
SaveInvoiceCall(userId, folderId, request, invoiceNumber, folderCompany) ==
  /\ now <= MaxSaves
  /\ LET metadata    == saveInvoiceNumber(userId, folderId, request, invoiceNumber,
                                          folderCompany, now)
         storageData == [metadata |-> metadata, request |-> request]
     IN  /\ invoiceData' = Put(invoiceData, metadata.id, JSONStorageData(storageData))
         /\ invoiceMeta' = Put(invoiceMeta, metadata.id, JSONMetadata(metadata))
         /\ invoiceIndex' = invoiceIndex \cup {<<"user", userId, metadata.id>>,
                                               <<"folder", folderId, metadata.id>>}
         /\ call' = [op |-> "saveInvoice", request |-> request, result |-> metadata]
  /\ now' = now + 1
  /\ UNCHANGED <<folders, folderIndex, accounts, last>>

\* a status update that creates the invoice it does not find
UpdateInvoiceStatusCallUpsert(invoiceId, status) ==
  /\ LET data    == getInvoiceData(invoiceId)
         blank   == [metadata |-> [id |-> invoiceId, total |-> Zero],
                     request  |-> [items |-> <<>>]]
         updated == updateInvoiceStatus(IF data = Null THEN blank ELSE data, status)
     IN  /\ invoiceData' = Put(invoiceData, invoiceId, JSONStorageData(updated))
         /\ invoiceMeta' = Put(invoiceMeta, invoiceId, JSONMetadata(updated.metadata))
         /\ call' = [op |-> "updateInvoiceStatus", invoiceId |-> invoiceId,
                     status |-> status, result |-> updated.metadata]
  /\ UNCHANGED <<folders, folderIndex, invoiceIndex, accounts, now, last>>

\* one call of InvoiceStorage.updateInvoiceStatus
UpdateInvoiceStatusCall(invoiceId, status) ==
  /\ LET data == getInvoiceData(invoiceId)
         this == [op |-> "updateInvoiceStatus", invoiceId |-> invoiceId,
                  status |-> status]
     IN  IF data = Null
         THEN /\ call' = Spread(this, [result |-> Null])
              /\ UNCHANGED <<invoiceData, invoiceMeta>>
         ELSE LET updated == updateInvoiceStatus(data, status)
              IN  /\ invoiceData' = Put(invoiceData, invoiceId, JSONStorageData(updated))
                  /\ invoiceMeta' = Put(invoiceMeta, invoiceId,
                                        JSONMetadata(updated.metadata))
                  /\ call' = Spread(this, [result |-> updated.metadata])
  /\ UNCHANGED <<folders, folderIndex, invoiceIndex, accounts, now, last>>

\* one call of AuthService.createApiKey
CreateApiKeyCall(userId) ==
  /\ uuids < MaxKeys
  /\ LET apiKey == ApiKey(userId, uuids + 1)
     IN  /\ apiKeys' = Put(apiKeys, apiKey, userId)
         /\ call' = [op |-> "createApiKey", userId |-> userId, result |-> apiKey]
  /\ uuids' = uuids + 1
  /\ UNCHANGED <<store, userRecords, userEmails, now, last>>

\* one call of AuthService.revokeApiKey
RevokeApiKeyCall(apiKey) ==
  /\ apiKeys' = Delete(apiKeys, apiKey)
  /\ call' = [op |-> "revokeApiKey", apiKey |-> apiKey]
  /\ UNCHANGED <<store, uuids, userRecords, userEmails, now, last>>

NextStorage ==
  \/ \E save \in StorageSaves :
       SaveInvoiceCall(save[1], save[2], save[3], save[4], save[5])
  \/ \E id \in StorageIds, status \in StatusValues : UpdateInvoiceStatusCall(id, status)

SpecStorage == InitStorage /\ [][NextStorage]_vars

\* the key service on its own
NextKeys ==
  \/ \E u \in {U1, U2} : CreateApiKeyCall(u)
  \/ \E apiKey \in StorageKeys : RevokeApiKeyCall(apiKey)

SpecKeys == InitStorage /\ [][NextKeys]_vars

-----------------------------------------------------------------------------
(* C16 *)

RevokeStep(apiKey) == call'.op = "revokeApiKey" /\ call'.apiKey = apiKey

\* C16: a key created for u validates to u until it is revoked; once
\* revoked it validates to null for ever and a request that carries it is
\* not authenticated; revoking a key leaves every other key as it was; a
\* key that was never created validates to null.
C16_ApiKeyLifecycle ==
  [][ /\ (uuids' # uuids) =>
           /\ call'.op = "createApiKey"
           /\ call'.result = ApiKey(call'.userId, uuids')
           /\ \A apiKey \in StorageKeys :
                apiKey = call'.result => validateApiKey(apiKey)' = call'.userId
      /\ \A apiKey \in StorageKeys :
           /\ (apiKey \in DOMAIN apiKeys /\ ~RevokeStep(apiKey)) =>
                validateApiKey(apiKey)' = validateApiKey(apiKey)
           /\ RevokeStep(apiKey) =>
                /\ validateApiKey(apiKey)' = Null
                /\ \A other \in StorageKeys \ {apiKey} :
                     validateApiKey(other)' = validateApiKey(other)
           /\ (apiKey.uuid <= uuids /\ validateApiKey(apiKey) = Null) =>
                validateApiKey(apiKey)' = Null
           /\ (validateApiKey(apiKey)' = Null) =>
                authenticateRequest(Bearer(apiKey))' = Null
           /\ (apiKey.uuid > uuids') => validateApiKey(apiKey)' = Null
           /\ (validateApiKey(apiKey)' # Null) =>
                /\ validateApiKey(apiKey)' = apiKey.userId
                /\ \A other \in DOMAIN apiKeys' :
                     other.uuid = apiKey.uuid => other = apiKey
    ]_vars

\* two keys were created, one of them has been revoked and the other one
\* still authenticates its user
C16_Witness ==
  /\ uuids = 2
  /\ call.op = "revokeApiKey"
  /\ \E apiKey \in DOMAIN apiKeys :
       /\ DOMAIN apiKeys = {apiKey}
       /\ apiKey.uuid # call.apiKey.uuid
       /\ call.apiKey.uuid <= uuids
       /\ authenticateRequest(Bearer(apiKey)) = [userId |-> apiKey.userId,
                                                 user   |-> users[apiKey.userId]]
       /\ authenticateRequest(Bearer(call.apiKey)) = Null

-----------------------------------------------------------------------------
(* C17 *)

\* C17: updateInvoiceStatus of an identifier under which no invoice is
\* stored returns null and leaves every record and every index key as it
\* was.
C17_UpdateOfMissingInvoice ==
  [][ \A id \in StorageIds :
        (/\ call'.op = "updateInvoiceStatus"
         /\ call'.invoiceId = id
         /\ getInvoiceData(id) = Null) =>
          /\ call'.result = Null
          /\ invoiceData' = invoiceData
          /\ invoiceMeta' = invoiceMeta
          /\ invoiceIndex' = invoiceIndex
          /\ UNCHANGED <<folders, folderIndex, accounts>>
    ]_vars

\* the update of a missing identifier has returned null while other
\* invoices are stored
C17_Witness ==
  /\ call.op = "updateInvoiceStatus"
  /\ call.result = Null
  /\ call.invoiceId \notin DOMAIN invoiceData
  /\ call.invoiceId \notin DOMAIN invoiceMeta
  /\ invoiceData # Empty

-----------------------------------------------------------------------------
(* C18 *)

\* C18: once saveInvoice has returned the metadata m for the request r,
\* getInvoiceMetadata(m.id) is m and getInvoiceData(m.id) is m with r; an
\* identifier that was never saved reads as null.
C18_SaveReadRoundTrip ==
  /\ call.op = "saveInvoice" =>
       /\ getInvoiceMetadata(call.result.id) = call.result
       /\ getInvoiceData(call.result.id) = [metadata |-> call.result,
                                            request  |-> call.request]
  /\ \A save \in StorageSaves :
       LET id == generateInvoiceId(save[1], save[5], save[4])
       IN  (\A k \in invoiceIndex : k[3] # id) =>
             getInvoiceMetadata(id) = Null /\ getInvoiceData(id) = Null
  /\ getInvoiceMetadata(NoSuchInvoice) = Null
  /\ getInvoiceData(NoSuchInvoice) = Null

-----------------------------------------------------------------------------
(* C19 *)

\* the limits listings are asked with
ListLimits == {1, 2, 5}

Elements(list) == { list[i] : i \in 1..Len(list) }

\* the invoices stored with the value owner in the field
StoredWith(field, owner) ==
  { invoiceMeta[id] : id \in { k \in DOMAIN invoiceMeta : invoiceMeta[k][field] = owner } }

\* a listing holds only invoices of the owner, at most limit of them, and
\* all of them when the owner has no more than limit
ScopedListing(list, field, owner, limit) ==
  /\ \A invoice \in Elements(list) : invoice[field] = owner
  /\ Len(list) <= limit
  /\ Cardinality(StoredWith(field, owner)) <= limit =>
       Elements(list) = StoredWith(field, owner)

\* C19: listInvoicesByUser(u) returns only invoices stored for u, and all of
\* them when they are at most limit; listInvoicesByFolder(f) returns exactly
\* the invoices of folder f; neither returns more than limit invoices.
C19_ListingScopedToOwner ==
  \A limit \in ListLimits :
    /\ \A save \in StorageSaves :
         ScopedListing(listInvoicesByUser(save[1], limit).invoices,
                       "userId", save[1], limit)
    /\ \A save \in StorageSaves :
         ScopedListing(listInvoicesByFolder(save[2], limit).invoices,
                       "folderId", save[2], limit)

-----------------------------------------------------------------------------
(* The HTTP API: every route as the worker serves it, behind the           *)
(* requireAuth() middleware where the route carries one.                   *)

\* requests that are answered with a write, over a whole behaviour of the API
MaxApiRequests == 3

\* z.string().length(3) on the sampled currencies
ThreeCharacters == {"USD", "EUR", "GBP", "CHF"}

\* userDefaultsSchema
userDefaultsSchema(d) ==
  /\ contactSchema(d.seller)
  /\ d.currency \in ThreeCharacters

\* z.string().email() on the sampled addresses
EmailAddresses == {"one@example.com", "two@example.com", "three@example.com"}

\* createUserSchema.safeParse(body).success
createUserSchema(body) ==
  /\ NonEmptyText(body.name)
  /\ body.email \in EmailAddresses
  /\ userDefaultsSchema(body.defaults)

UserUpdateKeys == {"name", "defaults"}

\* createUserSchema.partial().omit({ email: true }).safeParse(body).success
updateUserSchema(body) ==
  /\ ("name" \in DOMAIN body => NonEmptyText(body.name))
  /\ ("defaults" \in DOMAIN body => userDefaultsSchema(body.defaults))

\* its data: the keys the schema does not know are stripped
updateUserData(body) == [k \in DOMAIN body \cap UserUpdateKeys |-> body[k]]

\* paginationSchema on the limit
paginationSchema(limit) == limit >= 1 /\ limit <= 100

\* searchSchema on the query
searchSchema(q) == Len(q) >= 2

\* the limit of a listing when the query string gives none
DefaultLimit == 20

\* the limit the statistics are read with
StatsLimit == 1000

\* bodies of POST /users: a new address, the address of a stored user, and
\* no address
UserBodies ==
  { [name |-> "Three", email |-> "three@example.com",
     defaults |-> [seller |-> [name |-> "Seller Three"], currency |-> "CHF"]],
    [name |-> "One Again", email |-> "one@example.com",
     defaults |-> [seller |-> [name |-> "Seller One"], currency |-> "USD"]],
    [name |-> "Nobody", email |-> "not-an-address",
     defaults |-> [seller |-> [name |-> "Seller"], currency |-> "USD"]] }

\* bodies of PUT /users/me: the first carries the address of another user
UserUpdateBodies ==
  { [name |-> "Renamed", email |-> "two@example.com"], [name |-> ""] }

\* bodies of the API requests on folders and invoices
ApiFolderBodies ==
  { [name |-> "Website", company |-> AcmeInc,
     defaults |-> [buyer |-> [name |-> "Acme Buyer"]]],
    [name |-> "Broken", company |-> <<>>,
     defaults |-> [buyer |-> [name |-> "Nobody"]]] }

ApiFolderUpdateBodies ==
  { [company |-> BetaTech],
    [defaults |-> [buyer |-> [name |-> ""]]] }

ApiInvoiceBodies == { [items |-> <<ItemA>>], [items |-> <<>>] }

ApiStatusBodies == { [status |-> "paid"], [status |-> "void"] }

\* ?limit= of the listings: none given, and 0
LimitSamples == {DefaultLimit, 0}

\* ?q= of the search: "inv" and "x"
QuerySamples == { <<105, 110, 118>>, <<120>> }

\* the API keys POST /users returned to the two users
KeyOne == ApiKey(U1, 1)

KeyTwo == ApiKey(U2, 2)

\* the headers of a request: none, an empty Authorization header, another
\* scheme, and a Bearer key that is stored or was stored
HeaderSamples ==
  { Empty,
    [authorization |-> Authorization("", <<>>)],
    [authorization |-> Authorization("Basic ", KeyOne)] }
  \cup { Bearer(apiKey) : apiKey \in DOMAIN apiKeys \cup {KeyOne, KeyTwo} }

\* the two users registered, each with the key of its registration
InitApi ==
  /\ folders = Empty
  /\ folderIndex = {}
  /\ invoiceData = Empty
  /\ invoiceMeta = Empty
  /\ invoiceIndex = {}
  /\ apiKeys = (KeyOne :> U1) @@ (KeyTwo :> U2)
  /\ uuids = 2
  /\ userRecords = users
  /\ userEmails = emails
  /\ now = 1
  /\ last = NoResponse
  /\ call = NoCall

\* UserStorage.getUserByEmail
getUserByEmail(email) ==
  IF email \notin DOMAIN userEmails THEN Null
  ELSE getUserById(userEmails[email])

\* UserStorage.createUser: the user it stores under user:{id}
createUser(id, name, email, defaults, createdAt) ==
  [id |-> id, name |-> name, email |-> email, createdAt |-> createdAt,
   defaults |-> defaults]

\* crypto.randomUUID(): an id no user has
FreshUserId == CHOOSE id \in {U1, U2, U3} : id \notin DOMAIN userRecords

\* the identifiers of a set of folders in the order of their keys
RECURSIVE FolderKeyOrder(_)
FolderKeyOrder(ids) ==
  IF ids = {} THEN <<>>
  ELSE LET first == CHOOSE x \in ids : \A y \in ids : x <= y
       IN  <<first>> \o FolderKeyOrder(ids \ {first})

\* the loop over listResult.keys: the folders that getFolderById finds
RECURSIVE LoadFolders(_)
LoadFolders(keys) ==
  IF keys = <<>> THEN <<>>
  ELSE (IF Head(keys) \in DOMAIN folders THEN <<folders[Head(keys)]>> ELSE <<>>)
         \o LoadFolders(Tail(keys))

\* FolderStorage.getFoldersByUserId
getFoldersByUserId(userId) ==
  SortByCreatedAt(LoadFolders(FolderKeyOrder({ k[2] : k \in { j \in folderIndex :
                                                              j[1] = userId } })))

\* String.prototype.toLowerCase on the letters A-Z
ToLowerCase(s) == [i \in 1..Len(s) |-> IF IsAZ(s[i]) THEN s[i] + 32 ELSE s[i]]

\* String.prototype.includes
Includes(s, q) ==
  \E i \in 0..(Len(s) - Len(q)) : SubSeq(s, i + 1, i + Len(q)) = q

\* a contact name has none of the sampled queries in it
NameIncludes(name, q) == FALSE

\* Array.prototype.filter
Filter(list, Keep(_)) == SelectSeq(list, Keep)

\* InvoiceStorage.searchInvoices, with its limit of 100
searchInvoices(userId, query) ==
  LET lowerQuery == ToLowerCase(query)
  IN  Filter(listInvoicesByUser(userId, 100).invoices,
             LAMBDA invoice : \/ NameIncludes(invoice.buyer, lowerQuery)
                              \/ NameIncludes(invoice.seller, lowerQuery)
                              \/ Includes(ToLowerCase(invoice.id), lowerQuery))

\* invoices.reduce((sum, invoice) => sum + invoice.total, 0)
RECURSIVE SumTotals(_)
SumTotals(invoices) ==
  IF invoices = <<>> THEN 0
  ELSE SumTotals(SubSeq(invoices, 1, Len(invoices) - 1)) + invoices[Len(invoices)].total

\* the currency breakdown of GET /metadata/stats
CurrencyBreakdown(invoices) ==
  [c \in { invoices[i].currency : i \in 1..Len(invoices) } |->
     SumTotals(Filter(invoices, LAMBDA invoice : invoice.currency = c))]

\* the answer of a route that wrote nothing
Answer(response) ==
  /\ last' = response
  /\ UNCHANGED <<store, accounts, now, call>>

\* getAuthContext(c): the AuthContext the middleware has set
getAuthContext(headers) == authenticateRequest(headers)

\* requireAuth(): next() runs for a request that authenticates, or not at all
RequireAuth(headers, next) ==
  /\ now <= MaxApiRequests
  /\ IF authenticateRequest(headers) = Null
     THEN Answer(Response("requireAuth", 401))
     ELSE next

\* GET /
HealthCheck ==
  /\ now <= MaxApiRequests
  /\ Answer(Response("healthCheck", 200))

\* POST /users
PostUsers(body) ==
  /\ now <= MaxRequests
  /\ LET req == Response("postUsers", 201)
     IN  IF ~createUserSchema(body)
         THEN Answer(Spread(req, [code |-> 400]))
         ELSE IF getUserByEmail(body.email) # Null
         THEN Answer(Spread(req, [code |-> 409]))
         ELSE LET userId == FreshUserId
                  user   == createUser(userId, body.name, body.email, body.defaults, now)
                  apiKey == ApiKey(userId, uuids + 1)
              IN  /\ userRecords' = Put(userRecords, userId, user)
                  /\ userEmails' = Put(userEmails, body.email, userId)
                  /\ apiKeys' = Put(apiKeys, apiKey, userId)
                  /\ uuids' = uuids + 1
                  /\ now' = now + 1
                  /\ last' = Spread(req, [user |-> user, apiKey |-> apiKey])
                  /\ UNCHANGED <<store, call>>

\* GET /users/me
GetMe(u) ==
  /\ now <= MaxRequests
  /\ Answer(Spread(Response("getMe", 200), [body |-> getUserById(u)]))

\* PUT /users/me
PutMe(u, body) ==
  /\ now <= MaxRequests
  /\ LET req == Response("putMe", 200)
     IN  IF ~updateUserSchema(body)
         THEN Answer(Spread(req, [code |-> 400]))
         ELSE IF getUserById(u) = Null
         THEN Answer(Spread(req, [code |-> 404]))
         ELSE LET user        == getUserById(u)
                  updates     == updateUserData(body)
                  updatedUser == Spread(user, updates)
              IN  /\ userRecords' = Put(userRecords, u, updatedUser)
                  /\ userEmails' =
                       IF "email" \in DOMAIN updates /\ updates.email # user.email
                       THEN Put(Delete(userEmails, user.email), updates.email, u)
                       ELSE userEmails
                  /\ now' = now + 1
                  /\ last' = Spread(req, [body |-> updatedUser])
                  /\ UNCHANGED <<store, apiKeys, uuids, call>>

\* POST /users/api-keys
PostApiKeys(u) ==
  /\ now <= MaxRequests
  /\ LET newApiKey == ApiKey(u, uuids + 1)
     IN  /\ apiKeys' = Put(apiKeys, newApiKey, u)
         /\ last' = Spread(Response("postApiKeys", 201),
                            [apiKey |-> newApiKey, createdAt |-> now])
  /\ uuids' = uuids + 1
  /\ now' = now + 1
  /\ UNCHANGED <<store, userRecords, userEmails, call>>

\* DELETE /users/api-keys/{key}
DeleteApiKey(u, key) ==
  /\ now <= MaxRequests
  /\ apiKeys' = Delete(apiKeys, key)
  /\ now' = now + 1
  /\ last' = Response("deleteApiKey", 200)
  /\ UNCHANGED <<store, uuids, userRecords, userEmails, call>>

\* GET /folders
GetFolders(u) ==
  /\ now <= MaxRequests
  /\ Answer(Spread(Response("getFolders", 200), [body |-> getFoldersByUserId(u)]))

\* a GET /folders/{id} that does not look at the owner
GetFolderOfAnyone(u, folderId) ==
  /\ now <= MaxRequests
  /\ LET req == Response("getFolder", 200)
     IN  IF folderId \notin DOMAIN folders
         THEN Answer(Spread(req, [code |-> 404]))
         ELSE Answer(Spread(req, [body |-> folders[folderId]]))

\* GET /folders/{id}
GetFolder(u, folderId) ==
  /\ now <= MaxRequests
  /\ LET req == Response("getFolder", 200)
     IN  IF folderId \notin DOMAIN folders
         THEN Answer(Spread(req, [code |-> 404]))
         ELSE IF folders[folderId].userId # u
         THEN Answer(Spread(req, [code |-> 403]))
         ELSE Answer(Spread(req, [body |-> folders[folderId]]))

\* GET /folders/{id}/invoices
GetFolderInvoices(u, folderId, limit) ==
  /\ now <= MaxRequests
  /\ LET req == Response("getFolderInvoices", 200)
     IN  IF folderId \notin DOMAIN folders
         THEN Answer(Spread(req, [code |-> 404]))
         ELSE IF folders[folderId].userId # u
         THEN Answer(Spread(req, [code |-> 403]))
         ELSE IF ~paginationSchema(limit)
         THEN Answer(Spread(req, [code |-> 400]))
         ELSE Answer(Spread(req, [body |-> listInvoicesByFolder(folderId, limit)]))

\* GET /invoices/{id}
GetInvoice(u, invoiceId) ==
  /\ now <= MaxRequests
  /\ LET req      == Response("getInvoice", 200)
         metadata == getInvoiceMetadata(invoiceId)
     IN  IF metadata = Null
         THEN Answer(Spread(req, [code |-> 404]))
         ELSE IF metadata.userId # u
         THEN Answer(Spread(req, [code |-> 403]))
         ELSE Answer(Spread(req, [body |-> metadata]))

\* GET /invoices
GetInvoices(u, limit) ==
  /\ now <= MaxRequests
  /\ LET req == Response("getInvoices", 200)
     IN  IF ~paginationSchema(limit)
         THEN Answer(Spread(req, [code |-> 400]))
         ELSE Answer(Spread(req, [body |-> listInvoicesByUser(u, limit)]))

\* GET /metadata/stats
GetStats(u) ==
  /\ now <= MaxRequests
  /\ LET result == listInvoicesByUser(u, StatsLimit)
     IN  Answer(Spread(Response("getStats", 200),
                       [body |-> [totalInvoices     |-> Len(result.invoices),
                                  totalRevenue      |-> SumTotals(result.invoices),
                                  currencyBreakdown |-> CurrencyBreakdown(result.invoices),
                                  lastUpdated       |-> now]]))

\* GET /metadata/search
GetSearch(u, q) ==
  /\ now <= MaxRequests
  /\ LET req == Response("getSearch", 200)
     IN  IF ~searchSchema(q)
         THEN Answer(Spread(req, [code |-> 400]))
         ELSE LET filteredInvoices == searchInvoices(u, q)
              IN  Answer(Spread(req, [body |-> [invoices |-> filteredInvoices,
                                                query    |-> q,
                                                count    |-> Len(filteredInvoices)]]))

\* the folder ids and the invoice ids of the API requests
ApiFolderIds == DOMAIN folders \cup {FreshFolderId}

ApiInvoiceIds == DOMAIN invoiceMeta \cup {NoSuchInvoice}

\* the routes as the worker serves them: the middleware, then the handler
PostUsersRoute(headers, body) ==
  /\ now <= MaxApiRequests
  /\ PostUsers(body)

GetMeRoute(headers) ==
  RequireAuth(headers, GetMe(getAuthContext(headers).userId))

PutMeRoute(headers, body) ==
  RequireAuth(headers, PutMe(getAuthContext(headers).userId, body))

PostApiKeysRoute(headers) ==
  RequireAuth(headers, PostApiKeys(getAuthContext(headers).userId))

DeleteApiKeyRoute(headers, key) ==
  RequireAuth(headers, DeleteApiKey(getAuthContext(headers).userId, key))

CreateFolderRoute(headers, body) ==
  RequireAuth(headers, CreateFolder(getAuthContext(headers).userId, body))

GetFoldersRoute(headers) ==
  RequireAuth(headers, GetFolders(getAuthContext(headers).userId))

GetFolderRoute(headers, folderId) ==
  RequireAuth(headers, GetFolder(getAuthContext(headers).userId, folderId))

PutFolderRoute(headers, folderId, body) ==
  RequireAuth(headers, PutFolder(getAuthContext(headers).userId, folderId, body))

GetFolderInvoicesRoute(headers, folderId, limit) ==
  RequireAuth(headers, GetFolderInvoices(getAuthContext(headers).userId, folderId, limit))

CreateInvoiceRoute(headers, folderId, body, pdfOk) ==
  RequireAuth(headers, CreateInvoice(getAuthContext(headers).userId, folderId, body, pdfOk))

GetInvoiceRoute(headers, invoiceId) ==
  RequireAuth(headers, GetInvoice(getAuthContext(headers).userId, invoiceId))

GetInvoicesRoute(headers, limit) ==
  RequireAuth(headers, GetInvoices(getAuthContext(headers).userId, limit))

PatchStatusRoute(headers, invoiceId, body) ==
  RequireAuth(headers, PatchStatus(getAuthContext(headers).userId, invoiceId, body))

GetStatsRoute(headers) ==
  RequireAuth(headers, GetStats(getAuthContext(headers).userId))

GetSearchRoute(headers, q) ==
  RequireAuth(headers, GetSearch(getAuthContext(headers).userId, q))

\* the keys of the DELETE requests: the stored ones and the first two
ApiKeySamples == DOMAIN apiKeys \cup {KeyOne, KeyTwo}

\* every endpoint but the health check
Endpoint(headers) ==
  \/ \E body \in UserBodies : PostUsersRoute(headers, body)
  \/ GetMeRoute(headers)
  \/ \E body \in UserUpdateBodies : PutMeRoute(headers, body)
  \/ PostApiKeysRoute(headers)
  \/ \E key \in ApiKeySamples : DeleteApiKeyRoute(headers, key)
  \/ \E body \in ApiFolderBodies : CreateFolderRoute(headers, body)
  \/ GetFoldersRoute(headers)
  \/ \E f \in ApiFolderIds : GetFolderRoute(headers, f)
  \/ \E f \in ApiFolderIds, body \in ApiFolderUpdateBodies :
       PutFolderRoute(headers, f, body)
  \/ \E f \in ApiFolderIds, limit \in LimitSamples :
       GetFolderInvoicesRoute(headers, f, limit)
  \/ \E f \in ApiFolderIds, body \in ApiInvoiceBodies, pdfOk \in BOOLEAN :
       CreateInvoiceRoute(headers, f, body, pdfOk)
  \/ \E id \in ApiInvoiceIds : GetInvoiceRoute(headers, id)
  \/ \E limit \in LimitSamples : GetInvoicesRoute(headers, limit)
  \/ \E id \in ApiInvoiceIds, body \in ApiStatusBodies :
       PatchStatusRoute(headers, id, body)
  \/ GetStatsRoute(headers)
  \/ \E q \in QuerySamples : GetSearchRoute(headers, q)

NextApi ==
  \/ HealthCheck
  \/ \E headers \in HeaderSamples, body \in UserBodies : PostUsersRoute(headers, body)
  \/ \E headers \in HeaderSamples : GetMeRoute(headers)
  \/ \E headers \in HeaderSamples, body \in UserUpdateBodies : PutMeRoute(headers, body)
  \/ \E headers \in HeaderSamples : PostApiKeysRoute(headers)
  \/ \E headers \in HeaderSamples, key \in ApiKeySamples : DeleteApiKeyRoute(headers, key)
  \/ \E headers \in HeaderSamples, body \in ApiFolderBodies :
       CreateFolderRoute(headers, body)
  \/ \E headers \in HeaderSamples : GetFoldersRoute(headers)
  \/ \E headers \in HeaderSamples, f \in ApiFolderIds : GetFolderRoute(headers, f)
  \/ \E headers \in HeaderSamples, f \in ApiFolderIds, body \in ApiFolderUpdateBodies :
       PutFolderRoute(headers, f, body)
  \/ \E headers \in HeaderSamples, f \in ApiFolderIds, limit \in LimitSamples :
       GetFolderInvoicesRoute(headers, f, limit)
  \/ \E headers \in HeaderSamples, f \in ApiFolderIds, body \in ApiInvoiceBodies,
        pdfOk \in BOOLEAN : CreateInvoiceRoute(headers, f, body, pdfOk)
  \/ \E headers \in HeaderSamples, id \in ApiInvoiceIds : GetInvoiceRoute(headers, id)
  \/ \E headers \in HeaderSamples, limit \in LimitSamples :
       GetInvoicesRoute(headers, limit)
  \/ \E headers \in HeaderSamples, id \in ApiInvoiceIds, body \in ApiStatusBodies :
       PatchStatusRoute(headers, id, body)
  \/ \E headers \in HeaderSamples : GetStatsRoute(headers)
  \/ \E headers \in HeaderSamples, q \in QuerySamples : GetSearchRoute(headers, q)

SpecApi == InitApi /\ [][NextApi]_vars

-----------------------------------------------------------------------------
(* C15 *)

\* C15: a request to any endpoint other than the health check whose headers
\* carry no 'Bearer <key>' with a key that maps to a stored user is answered
\* 401, and it changes nothing of what is stored.
C15_EveryEndpointRequiresAuth ==
  [][\A headers \in HeaderSamples :
       (authenticateRequest(headers) = Null /\ Endpoint(headers))
         => (last'.code = 401 /\ UNCHANGED <<store, accounts>>)]_vars

-----------------------------------------------------------------------------
(* C20 *)

\* the folders and the invoices stored with the userId of another user
FoldersOfOthers(userId) == { f \in DOMAIN folders : folders[f].userId # userId }

InvoicesOfOthers(userId) ==
  { id \in DOMAIN invoiceMeta : invoiceMeta[id].userId # userId }

\* the answer carries the status code and nothing else, and nothing that is
\* stored has changed
Refused(code) ==
  /\ last'.code = code
  /\ DOMAIN last' = {"op", "code"}
  /\ UNCHANGED <<store, accounts>>

\* the request has no other answer than a refusal with the code
OnlyRefused(Request, code) == ~ENABLED (Request /\ ~Refused(code))

\* the six requests of one user on what is stored with the userId of
\* another, each refused; Code(valid) is the status code of a request whose
\* body passes (valid) or fails the schema of its route
OwnerOnly(Code(_)) ==
  \A headers \in HeaderSamples :
    LET authContext == authenticateRequest(headers)
    IN  authContext # Null =>
          /\ \A id \in InvoicesOfOthers(authContext.userId) :
               /\ OnlyRefused(GetInvoiceRoute(headers, id), 403)
               /\ \A body \in ApiStatusBodies :
                    OnlyRefused(PatchStatusRoute(headers, id, body),
                                Code(updateInvoiceStatusSchema(body)))
          /\ \A f \in FoldersOfOthers(authContext.userId) :
               /\ OnlyRefused(GetFolderRoute(headers, f), 403)
               /\ \A body \in ApiFolderUpdateBodies :
                    OnlyRefused(PutFolderRoute(headers, f, body), 403)
               /\ \A limit \in LimitSamples :
                    OnlyRefused(GetFolderInvoicesRoute(headers, f, limit), 403)
               /\ \A body \in ApiInvoiceBodies, pdfOk \in BOOLEAN :
                    OnlyRefused(CreateInvoiceRoute(headers, f, body, pdfOk),
                                Code(createInvoiceSchema(body)))

-----------------------------------------------------------------------------
(* The fonts of the PDF generator (utils/pdf.ts): Init draws what the      *)
(* asset binding answers for each font file, the actions load the fonts    *)
(* one after the other and finish the document.                            *)

\* FontType, in the order generateInvoicePDF loads the variants
FontTypes == <<"regular", "medium", "semibold">>

\* what env.ASSETS.fetch does for a font file: it throws, it answers with a
\* response that is not ok, or it answers 200 with the font file, with bytes
\* that are no font, or with no bytes
AssetOutcomes == {"throws", "not ok", "font", "not a font", "no bytes"}

\* a rejected promise
Rejected == "rejected"

\* an ArrayBuffer, by what it holds
EmptyBuffer == "no bytes"

\* InvoicePDFGenerator.getGeistMonoFont: the bytes it returns
getGeistMonoFont(asset) ==
  IF asset \in {"font", "not a font", "no bytes"} THEN asset ELSE EmptyBuffer

\* pdfDoc.embedFont on the bytes of a custom font: fontkit rejects bytes
\* that are no font
embedFont(fontBytes) ==
  IF fontBytes = "font" THEN "GeistMono" ELSE Rejected

\* a getFont that catches what embedFont throws, as the loader of the
\* earlier generator did
getFontCaught(asset) ==
  LET fontBytes == getGeistMonoFont(asset)
  IN  IF fontBytes # EmptyBuffer /\ embedFont(fontBytes) # Rejected
      THEN embedFont(fontBytes)
      ELSE "Helvetica"

\* InvoicePDFGenerator.getFont: the font it embeds, or the rejection
getFont(asset) ==
  LET fontBytes == getGeistMonoFont(asset)
  IN  IF fontBytes # EmptyBuffer
      THEN embedFont(fontBytes)
      ELSE "Helvetica"

InitFont ==
  /\ folders = Empty
  /\ folderIndex = {}
  /\ invoiceData = Empty
  /\ invoiceMeta = Empty
  /\ invoiceIndex = {}
  /\ InitAccounts
  /\ now = 1
  /\ last = NoResponse
  /\ call \in { [op |-> "generateInvoicePDF", done |-> FALSE, assets |-> assets,
                 fonts |-> <<>>] :
                assets \in [1..Len(FontTypes) -> AssetOutcomes] }

\* await this.getFont(pdfDoc, variant), for the next variant
GetFontCall ==
  /\ call.op = "generateInvoicePDF" /\ ~call.done
  /\ Len(call.fonts) < Len(FontTypes)
  /\ LET font == getFont(call.assets[Len(call.fonts) + 1])
     IN  IF font = Rejected
         THEN call' = Spread(call, [done |-> TRUE, result |-> Rejected])
         ELSE call' = Spread(call, [fonts |-> Append(call.fonts, font)])
  /\ UNCHANGED <<store, accounts, now, last>>

\* the page is drawn with the three fonts and pdfDoc.save() returns the bytes
SavePdfCall ==
  /\ call.op = "generateInvoicePDF" /\ ~call.done
  /\ Len(call.fonts) = Len(FontTypes)
  /\ call' = Spread(call, [done |-> TRUE, result |-> "pdf"])
  /\ UNCHANGED <<store, accounts, now, last>>

NextFont ==
  \/ GetFontCall
  \/ SavePdfCall

SpecFont == InitFont /\ [][NextFont]_vars

-----------------------------------------------------------------------------
(* C21 *)

\* C21: whatever the asset binding answers for the font files (the fetch
\* throws, the response is not ok, the bytes are no font), generateInvoicePDF
\* completes with a PDF, and a variant whose file could not be used is set
\* in Helvetica.
C21_FontFallback ==
  Did("generateInvoicePDF") =>
    /\ call.result = "pdf"
    /\ \A v \in 1..Len(FontTypes) :
         call.fonts[v] = IF call.assets[v] = "font" THEN "GeistMono" ELSE "Helvetica"

-----------------------------------------------------------------------------
(* Two requests in flight at once.  Every await of a KV read or write is   *)
(* one step, and the steps of the two requests interleave freely.  Init is *)
(* the store after one folder and its first invoice were created.          *)

\* a fourth user id, "c0de"
U4 == <<99, 48, 100, 101>>

\* crypto.randomUUID() of POST /users, for the first and the second request
RequestUserIds == <<U3, U4>>

\* the request of every invoice that is created
RaceRequest ==
  [items |-> <<ItemA>>, seller |-> [name |-> "Seller One"],
   buyer |-> [name |-> "Acme Buyer"], currency |-> "USD",
   issueDate |-> 2, dueDate |-> 17, taxRate |-> 0, discountRate |-> 0]

\* the folder, with the counter after its first invoice
RaceFolder ==
  Spread(createFolder(1, U1, "Website", AcmeInc,
                      [buyer |-> [name |-> "Acme Buyer"]], 1),
         [invoiceCounter |-> 1])

\* the metadata of the first invoice: INV-3FA-ACME-0001
RaceInvoice == saveInvoice(U1, 1, RaceRequest, 1, AcmeInc, 2)

\* the requests that run side by side
RaceRequests ==
  { [op |-> "updateInvoiceStatus", pc |-> "getInvoiceData",
     invoiceId |-> RaceInvoice.id, status |-> "paid"],
    [op |-> "updateInvoiceStatus", pc |-> "getInvoiceData",
     invoiceId |-> RaceInvoice.id, status |-> "due"],
    [op |-> "createInvoice", pc |-> "incrementInvoiceCounter", userId |-> U1,
     folderId |-> 1, request |-> RaceRequest],
    [op |-> "updateFolder", pc |-> "updateFolder", folderId |-> 1,
     updates |-> [name |-> "Renamed"]],
    [op |-> "postUsers", pc |-> "getUserByEmail",
     body |-> [name |-> "Three", email |-> "three@example.com",
               defaults |-> [seller |-> [name |-> "Seller Three"],
                             currency |-> "CHF"]]] }

InitRace ==
  /\ folders = (1 :> RaceFolder)
  /\ folderIndex = {<<U1, 1>>}
  /\ invoiceData = (RaceInvoice.id :> [metadata |-> RaceInvoice, request |-> RaceRequest])
  /\ invoiceMeta = (RaceInvoice.id :> RaceInvoice)
  /\ invoiceIndex = {<<"user", U1, RaceInvoice.id>>, <<"folder", 1, RaceInvoice.id>>}
  /\ InitAccounts
  /\ now = 3
  /\ last = NoResponse
  /\ call \in { [op |-> "race", requests |-> <<first, second>>, completed |-> <<>>] :
                first \in RaceRequests, second \in RaceRequests }

\* request i goes on with the fields given; a request that has returned is
\* put down in the order of completion
Continue(i, fields) ==
  LET request == Spread(call.requests[i], fields)
  IN  call' = [call EXCEPT !.requests[i] = request,
                           !.completed = IF request.pc = "done" THEN Append(@, i) ELSE @]

At(i, op, pcs) ==
  /\ call.op = "race"
  /\ call.requests[i].op = op
  /\ call.requests[i].pc \in pcs

\* updateInvoiceStatus: const data = await this.getInvoiceData(invoiceId)
UpdateStatusRead(i) ==
  /\ At(i, "updateInvoiceStatus", {"getInvoiceData"})
  /\ LET data == getInvoiceData(call.requests[i].invoiceId)
     IN  IF data = Null
         THEN Continue(i, [pc |-> "done", result |-> Null])
         ELSE Continue(i, [pc |-> "putData",
                           updated |-> updateInvoiceStatus(data, call.requests[i].status)])
  /\ UNCHANGED <<store, accounts, now, last>>

\* updateInvoiceStatus: the put of invoice:{id}, then the put of invoice:meta:{id}
UpdateStatusPut(i) ==
  /\ At(i, "updateInvoiceStatus", {"putData", "putMeta"})
  /\ LET request == call.requests[i]
     IN  IF request.pc = "putData"
         THEN /\ invoiceData' = Put(invoiceData, request.invoiceId, request.updated)
              /\ Continue(i, [pc |-> "putMeta"])
              /\ UNCHANGED invoiceMeta
         ELSE /\ invoiceMeta' = Put(invoiceMeta, request.invoiceId,
                                    request.updated.metadata)
              /\ Continue(i, [pc |-> "done", result |-> request.updated.metadata])
              /\ UNCHANGED invoiceData
  /\ UNCHANGED <<folders, folderIndex, invoiceIndex, accounts, now, last>>

\* incrementInvoiceCounter: const folder = await this.getFolderById(folderId)
IncrementRead(i) ==
  /\ At(i, "createInvoice", {"incrementInvoiceCounter"})
  /\ Continue(i, [pc |-> "updateFolder",
                  updates |-> [invoiceCounter |->
                                 NewCounter(folders, call.requests[i].folderId)]])
  /\ UNCHANGED <<store, accounts, now, last>>

\* updateFolder: const folder = await this.getFolderById(id)
UpdateFolderRead(i) ==
  /\ \/ At(i, "createInvoice", {"updateFolder"})
     \/ At(i, "updateFolder", {"updateFolder"})
  /\ Continue(i, [pc |-> "putFolder",
                  updatedFolder |-> Spread(folders[call.requests[i].folderId],
                                           call.requests[i].updates)])
  /\ UNCHANGED <<store, accounts, now, last>>

\* updateFolder: await this.kv.put(`folder:${id}`, ...); incrementInvoiceCounter
\* returns newCounter and saveInvoice builds the metadata
UpdateFolderPut(i) ==
  /\ \/ At(i, "createInvoice", {"putFolder"})
     \/ At(i, "updateFolder", {"putFolder"})
  /\ LET request == call.requests[i]
     IN  /\ folders' = Put(folders, request.folderId, request.updatedFolder)
         /\ IF request.op = "updateFolder"
            THEN /\ Continue(i, [pc |-> "done", result |-> request.updatedFolder])
                 /\ UNCHANGED now
            ELSE /\ Continue(i, [pc |-> "putData",
                                 metadata |-> saveInvoice(request.userId, request.folderId,
                                                          request.request,
                                                          request.updates.invoiceCounter,
                                                          request.updatedFolder.company,
                                                          now)])
                 /\ now' = now + 1
  /\ UNCHANGED <<folderIndex, invoiceData, invoiceMeta, invoiceIndex, accounts, last>>

\* saveInvoice: its four puts, one after the other
SaveInvoicePut(i) ==
  /\ At(i, "createInvoice", {"putData", "putMeta", "putUserKey", "putFolderKey"})
  /\ LET request  == call.requests[i]
         metadata == request.metadata
     IN  CASE request.pc = "putData" ->
                /\ invoiceData' = Put(invoiceData, metadata.id,
                                      [metadata |-> metadata, request |-> request.request])
                /\ Continue(i, [pc |-> "putMeta"])
                /\ UNCHANGED <<invoiceMeta, invoiceIndex>>
           [] request.pc = "putMeta" ->
                /\ invoiceMeta' = Put(invoiceMeta, metadata.id, metadata)
                /\ Continue(i, [pc |-> "putUserKey"])
                /\ UNCHANGED <<invoiceData, invoiceIndex>>
           [] request.pc = "putUserKey" ->
                /\ invoiceIndex' = invoiceIndex \cup {<<"user", request.userId, metadata.id>>}
                /\ Continue(i, [pc |-> "putFolderKey"])
                /\ UNCHANGED <<invoiceData, invoiceMeta>>
           [] request.pc = "putFolderKey" ->
                /\ invoiceIndex' = invoiceIndex
                                     \cup {<<"folder", request.folderId, metadata.id>>}
                /\ Continue(i, [pc |-> "done", result |-> metadata])
                /\ UNCHANGED <<invoiceData, invoiceMeta>>
  /\ UNCHANGED <<folders, folderIndex, accounts, now, last>>

\* POST /users: const existingUser = await userStorage.getUserByEmail(email)
PostUsersRead(i) ==
  /\ At(i, "postUsers", {"getUserByEmail"})
  /\ IF getUserByEmail(call.requests[i].body.email) # Null
     THEN Continue(i, [pc |-> "done", result |-> 409])
     ELSE Continue(i, [pc |-> "putUser",
                       user |-> createUser(RequestUserIds[i], call.requests[i].body.name,
                                           call.requests[i].body.email,
                                           call.requests[i].body.defaults, now)])
  /\ UNCHANGED <<store, accounts, now, last>>

\* POST /users: the two puts of createUser, then the put of createApiKey
PostUsersPut(i) ==
  /\ At(i, "postUsers", {"putUser", "putEmail", "putApiKey"})
  /\ LET request == call.requests[i]
         user    == request.user
     IN  CASE request.pc = "putUser" ->
                /\ userRecords' = Put(userRecords, user.id, user)
                /\ Continue(i, [pc |-> "putEmail"])
                /\ UNCHANGED <<userEmails, apiKeys, uuids>>
           [] request.pc = "putEmail" ->
                /\ userEmails' = Put(userEmails, user.email, user.id)
                /\ Continue(i, [pc |-> "putApiKey"])
                /\ UNCHANGED <<userRecords, apiKeys, uuids>>
           [] request.pc = "putApiKey" ->
                /\ apiKeys' = Put(apiKeys, ApiKey(user.id, uuids + 1), user.id)
                /\ uuids' = uuids + 1
                /\ Continue(i, [pc |-> "done", result |-> 201])
                /\ UNCHANGED <<userRecords, userEmails>>
  /\ UNCHANGED <<store, now, last>>

NextRace ==
  \/ \E i \in {1, 2} : UpdateStatusRead(i)
  \/ \E i \in {1, 2} : UpdateStatusPut(i)
  \/ \E i \in {1, 2} : IncrementRead(i)
  \/ \E i \in {1, 2} : UpdateFolderRead(i)
  \/ \E i \in {1, 2} : UpdateFolderPut(i)
  \/ \E i \in {1, 2} : SaveInvoicePut(i)
  \/ \E i \in {1, 2} : PostUsersRead(i)
  \/ \E i \in {1, 2} : PostUsersPut(i)

SpecRace == InitRace /\ [][NextRace]_vars

-----------------------------------------------------------------------------
(* C22, C24, C25, C28 *)

\* both requests have returned
AllDone ==
  /\ call.op = "race"
  /\ \A i \in DOMAIN call.requests : call.requests[i].pc = "done"

\* the requests of one kind
RequestsOf(op) == { i \in DOMAIN call.requests : call.requests[i].op = op }

\* the request of the kind that completed last
LastCompleted(op) ==
  LET positions == { k \in DOMAIN call.completed : call.completed[k] \in RequestsOf(op) }
  IN  call.completed[CHOOSE k \in positions : \A j \in positions : j <= k]

\* C22: once all status updates of an invoice have completed, however their
\* reads and writes interleaved, the stored status is the one requested by
\* the update that completed last, in invoice:{id} and in invoice:meta:{id}.
C22_LastUpdateWins ==
  (AllDone /\ RequestsOf("updateInvoiceStatus") # {}) =>
    LET request == call.requests[LastCompleted("updateInvoiceStatus")]
    IN  /\ invoiceData[request.invoiceId].metadata.status = request.status
        /\ invoiceMeta[request.invoiceId].status = request.status

\* C24: invoice creations in one folder never receive the same number,
\* however their counter reads and writes interleave; after n creations the
\* counter of the folder is n and the invoices carry the numbers 1..n.
C24_CounterHandsOutEachNumberOnce ==
  AllDone =>
    LET n == 1 + Cardinality(RequestsOf("createInvoice"))
    IN  /\ folders[1].invoiceCounter = n
        /\ { invoiceMeta[id].number : id \in DOMAIN invoiceMeta } = 1..n
        /\ \A i, j \in RequestsOf("createInvoice") :
             i # j => call.requests[i].result.number # call.requests[j].result.number

\* C25: no step of a folder update or of an invoice creation, in any
\* interleaving, lowers the invoiceCounter of a folder or changes its id,
\* userId or createdAt.
C25_CounterNeverDecreases ==
  [][\A f \in DOMAIN folders :
       /\ folders'[f].invoiceCounter >= folders[f].invoiceCounter
       /\ folders'[f].id = folders[f].id
       /\ folders'[f].userId = folders[f].userId
       /\ folders'[f].createdAt = folders[f].createdAt]_vars

\* C28: after POST /users requests in any interleaving there is at most
\* one user record per e-mail address, getUserByEmail(e) returns the user
\* stored with e, and a request for an address in use was answered 409.
C28_EmailIdentifiesUser ==
  AllDone =>
    /\ \A u, v \in DOMAIN userRecords :
         userRecords[u].email = userRecords[v].email => u = v
    /\ \A e \in DOMAIN userEmails : getUserByEmail(e).email = e
    /\ \A i, j \in RequestsOf("postUsers") :
         (i # j /\ call.requests[i].body.email = call.requests[j].body.email)
           => (call.requests[i].result = 409 \/ call.requests[j].result = 409)

-----------------------------------------------------------------------------
(* C23 *)

\* the two copies of the metadata: an invoice has its full record
\* invoice:{id} exactly when it has its metadata record invoice:meta:{id},
\* and the metadata inside the full record equals the metadata record
MetadataCopiesAgree ==
  /\ DOMAIN invoiceData = DOMAIN invoiceMeta
  /\ \A id \in DOMAIN invoiceData : invoiceData[id].metadata = invoiceMeta[id]

\* C23: once every creation and every status update that was issued has
\* completed, the two copies of each invoice's metadata agree, and each
\* exists whenever the other does.
C23_CopiesAgreeOnceCompleted == AllDone => MetadataCopiesAgree

-----------------------------------------------------------------------------
(* C26 *)

\* what POST /invoices/folders/{folderId} has to leave behind for the
\* status codes given as errors: nothing on an error, and on the document
\* one increment of the folder's counter and one invoice with that number
AllOrNothing(errors) ==
  \A u \in UserIds, f \in DOMAIN folders \cup {FreshFolderId},
     body \in InvoiceBodies, pdfOk \in BOOLEAN :
    CreateInvoice(u, f, body, pdfOk) =>
      IF last'.code \in errors
      THEN UNCHANGED store
      ELSE /\ last'.code = 200
           /\ folders' = Put(folders, f, Spread(folders[f],
                               [invoiceCounter |-> folders[f].invoiceCounter + 1]))
           /\ last'.number = folders'[f].invoiceCounter
           /\ invoiceMeta'[last'.id].number = last'.number
           /\ invoiceData'[last'.id].metadata.number = last'.number
           /\ \A id \in DOMAIN invoiceMeta' \ {last'.id} :
                id \in DOMAIN invoiceMeta /\ invoiceMeta'[id] = invoiceMeta[id]
           /\ invoiceIndex' = invoiceIndex \cup {<<"user", u, last'.id>>,
                                                 <<"folder", f, last'.id>>}

\* C26: when POST /invoices/folders/{folderId} answers 400, 403, 404 or 500
\* nothing was written and the folder's counter is unchanged; when it
\* answers with the PDF the counter was incremented once and one invoice
\* was stored with that number.
C26_CreateAllOrNothing == [][AllOrNothing({400, 403, 404, 500})]_vars

-----------------------------------------------------------------------------
(* C27 *)

\* C27: DELETE /users/api-keys/{key} issued by one user never invalidates a
\* key that maps to another user.
C27_OnlyOwnerRevokes ==
  [][\A headers \in HeaderSamples, key \in ApiKeySamples :
       (authenticateRequest(headers) # Null /\ DeleteApiKeyRoute(headers, key)) =>
         \A apiKey \in DOMAIN apiKeys :
           apiKeys[apiKey] # getAuthContext(headers).userId
             => (apiKey \in DOMAIN apiKeys' /\ apiKeys'[apiKey] = apiKeys[apiKey])]_vars

-----------------------------------------------------------------------------
(* The identifier derivation on its own: Init draws the arguments of one   *)
(* call of generateInvoiceId, the action applies it.                       *)

\* the sampled sequence numbers have up to MaxDigits + 1 digits
MaxDigits == 5

RECURSIVE Pow10(_)
Pow10(k) == IF k = 0 THEN 1 ELSE 10 * Pow10(k - 1)

\* 1, 42, and the numbers around every power of ten
NumberSamples ==
  {1, 42} \cup UNION { {Pow10(k) - 1, Pow10(k), Pow10(k) + 1} : k \in 1..MaxDigits }

\* "john_doe", "alice_smith", "x", "user", "ab", "", sharp s + "a"
JohnDoe == <<106, 111, 104, 110, 95, 100, 111, 101>>

AliceSmith == <<97, 108, 105, 99, 101, 95, 115, 109, 105, 116, 104>>

LowerX == <<120>>

User == <<117, 115, 101, 114>>

Ab == <<97, 98>>

SharpSA == <<223, 97>>

OwnerSamples == {JohnDoe, AliceSmith, LowerX, User, Ab, <<>>, SharpSA, U1}

\* "ACME Corporation", "Beta-Tech Inc.", "Y", "Test & Associates, LLC",
\* "123-ABC-XYZ", "!@#$%^&*()", "a1b2c3", e-acute e-acute " ab"
ACMECorporation ==
  <<65, 67, 77, 69, 32, 67, 111, 114, 112, 111, 114, 97, 116, 105, 111, 110>>

BetaTechInc == <<66, 101, 116, 97, 45, 84, 101, 99, 104, 32, 73, 110, 99, 46>>

UpperY == <<89>>

TestAssociates ==
  <<84, 101, 115, 116, 32, 38, 32, 65, 115, 115, 111, 99, 105, 97, 116, 101,
    115, 44, 32, 76, 76, 67>>

Digits123ABC == <<49, 50, 51, 45, 65, 66, 67, 45, 88, 89, 90>>

Punctuation == <<33, 64, 35, 36, 37, 94, 38, 42, 40, 41>>

A1b2c3 == <<97, 49, 98, 50, 99, 51>>

AccentedAb == <<233, 233, 32, 97, 98>>

CompanySamples ==
  {ACMECorporation, BetaTechInc, UpperY, TestAssociates, Digits123ABC,
   Punctuation, A1b2c3, AccentedAb, <<>>, AcmeInc, ACMECorp}

InitId ==
  /\ folders = Empty
  /\ folderIndex = {}
  /\ invoiceData = Empty
  /\ invoiceMeta = Empty
  /\ invoiceIndex = {}
  /\ InitAccounts
  /\ now = 1
  /\ last = NoResponse
  /\ call \in { [op |-> "generateInvoiceId", userId |-> u, folderCompany |-> c,
                 invoiceNumber |-> n, done |-> FALSE, result |-> <<>>] :
                u \in OwnerSamples, c \in CompanySamples, n \in NumberSamples }

\* one call of InvoiceStorage.generateInvoiceId
GenerateInvoiceIdCall ==
  /\ call.op = "generateInvoiceId"
  /\ ~call.done
  /\ call' = [call EXCEPT
                !.done = TRUE,
                !.result = generateInvoiceId(call.userId, call.folderCompany,
                                             call.invoiceNumber)]
  /\ UNCHANGED <<store, accounts, now, last>>

NextId == GenerateInvoiceIdCall

SpecId == InitId /\ [][NextId]_vars

Returned == call.op = "generateInvoiceId" /\ call.done

-----------------------------------------------------------------------------
(* C9 *)

\* the expected identifiers of the storage tests and of the specification
\* (section 8), and of the empty strings
IdTestVectors ==
  { <<JohnDoe, ACMECorporation, 1,
      <<73, 78, 86, 45, 74, 79, 72, 45, 65, 67, 77, 69, 45, 48, 48, 48, 49>>>>,
    <<AliceSmith, BetaTechInc, 42,
      <<73, 78, 86, 45, 65, 76, 73, 45, 66, 69, 84, 65, 45, 48, 48, 52, 50>>>>,
    <<LowerX, UpperY, 9999,
      <<73, 78, 86, 45, 88, 45, 89, 45, 57, 57, 57, 57>>>>,
    <<User, TestAssociates, 1,
      <<73, 78, 86, 45, 85, 83, 69, 45, 84, 69, 83, 84, 45, 48, 48, 48, 49>>>>,
    <<User, Digits123ABC, 1,
      <<73, 78, 86, 45, 85, 83, 69, 45, 45, 48, 48, 48, 49>>>>,
    <<User, Punctuation, 1,
      <<73, 78, 86, 45, 85, 83, 69, 45, 45, 48, 48, 48, 49>>>>,
    <<<<>>, <<>>, 1,
      <<73, 78, 86, 45, 45, 45, 48, 48, 48, 49>>>> }

\* a letter of the Latin-1 range
IsLetter(c) ==
  \/ c \in 65..90
  \/ c \in 97..122
  \/ c \in {170, 181, 186}
  \/ (c \in 192..255 /\ c \notin {215, 247})

NoLetterIn(s) == \A i \in 1..Len(s) : ~IsLetter(s[i])

\* the text between the second separator and the sequence field
CompanySegment(r, userId, invoiceNumber) ==
  SubSeq(r, Len(INV) + 1 + Len(UserPrefix(userId)) + 1 + 1,
            Len(r) - Len(SequenceText(invoiceNumber)) - 1)

\* C9: generateInvoiceId truncates first and filters second.  The returned
\* identifier is the one the tests expect; it depends on the first 3
\* characters of the owner id and the first 4 characters of the company name
\* only; its company segment holds letters A-Z only, and is empty when the
\* first 4 characters of the name hold no letter, whatever follows them; an
\* empty owner id gives an empty owner segment; every sampled input returns.
C9_TruncateThenFilter ==
  Returned =>
    LET u == call.userId
        c == call.folderCompany
        n == call.invoiceNumber
        r == call.result
        seg == CompanySegment(r, u, n)
    IN  /\ \A v \in IdTestVectors :
             (v[1] = u /\ v[2] = c /\ v[3] = n) => r = v[4]
        /\ r = generateInvoiceId(Substring0(u, 3), Substring0(c, 4), n)
        /\ SubSeq(r, 1, 4) = <<73, 78, 86, 45>>
        /\ \A i \in 1..Len(seg) : seg[i] \in 65..90
        /\ (NoLetterIn(Substring0(c, 4)) => seg = <<>>)
        /\ (Len(u) <= 3 /\ (\A k \in 1..Len(u) : u[k] \in 48..57 \cup 97..122)
              => /\ Len(UserPrefix(u)) = Len(u)
                 /\ SubSeq(r, 5, 4 + Len(u))
                      = [i \in 1..Len(u) |->
                           IF u[i] \in 97..122 THEN u[i] - 32 ELSE u[i]])
        /\ (u = <<>> => SubSeq(r, 1, 5) = <<73, 78, 86, 45, 45>>)

\* generateInvoiceId('user', '123-ABC-XYZ', 1) returned 'INV-USE--0001'
C9_Witness ==
  /\ Returned
  /\ call.userId = User
  /\ call.folderCompany = Digits123ABC
  /\ call.invoiceNumber = 1
  /\ call.result = <<73, 78, 86, 45, 85, 83, 69, 45, 45, 48, 48, 48, 49>>

-----------------------------------------------------------------------------
(* C10 *)

\* the text after the third separator
SequenceSegment(r, userId, folderCompany) ==
  SubSeq(r, Len(INV) + 1 + Len(UserPrefix(userId)) + 1
              + Len(CompanyPrefix(folderCompany)) + 1 + 1,
            Len(r))

\* the number a string of decimal digits denotes
RECURSIVE DecimalValue(_)
DecimalValue(s) ==
  IF s = <<>> THEN 0
  ELSE 10 * DecimalValue(SubSeq(s, 1, Len(s) - 1)) + (s[Len(s)] - 48)

\* C10: the sequence field is the sequence number in decimal digits, 4 wide
\* with leading zeros below 1000, 4 wide from 1000 to 9999, and in full
\* without a leading zero from 10000 on; for the same owner and company no
\* other sampled sequence number gives the returned identifier.
C10_SequenceFieldInjective ==
  Returned =>
    LET u == call.userId
        c == call.folderCompany
        n == call.invoiceNumber
        r == call.result
        sq == SequenceSegment(r, u, c)
    IN  /\ \A i \in 1..Len(sq) : sq[i] \in 48..57
        /\ DecimalValue(sq) = n
        /\ (n < 1000 => Len(sq) = 4 /\ sq[1] = 48)
        /\ (n >= 1000 /\ n < 10000 => Len(sq) = 4 /\ sq[1] # 48)
        /\ (n >= 10000 => Len(sq) > 4 /\ sq[1] # 48)
        /\ \A m \in NumberSamples : m # n => generateInvoiceId(u, c, m) # r

\* generateInvoiceId(sharp s + 'a', 'a1b2c3', 10001) returned 'INV-SSA-AB-10001'
C10_Witness ==
  /\ Returned
  /\ call.userId = SharpSA
  /\ call.folderCompany = A1b2c3
  /\ call.invoiceNumber = 10001
  /\ call.result = <<73, 78, 86, 45, 83, 83, 65, 45, 65, 66, 45, 49, 48, 48, 48, 49>>

=============================================================================
